---- MODULE Spec2Model ----
(***************************************************************************)
(* Access-control core of the Innogate server: the relational tables       *)
(* (uploaded_pdfs, pdf_share_requests, pdf_access), the relationship graph *)
(* (FGA tuples), the in-memory vector-store cache, the upload directory,   *)
(* and the request handlers that read and write them.                      *)
(*                                                                         *)
(* A handler is an async function: it runs atomically between two awaits   *)
(* and other requests may run at each await.  Each handler is therefore a  *)
(* small process: req[p] holds the position (pc) and the local variables   *)
(* of the request running in slot p.  A step is one awaited operation on   *)
(* shared state (a relational statement, a file operation, a graph call, a *)
(* call of the embedding service) together with the synchronous code that  *)
(* follows it, up to the next such operation or the reply.  The lookup of  *)
(* the caller in the users table is no step: the table is fixed.           *)
(*                                                                         *)
(* The relational store and the disk answer every operation (a statement   *)
(* fails only on a constraint, a file operation only on a missing file);   *)
(* the graph and the embedding service may fail, and the graph may not     *)
(* answer at all.                                                          *)
(*                                                                         *)
(* Not modelled: file contents, the descriptive columns of a PDF row       *)
(* (title, ORCID, researcher name), linked_researchers, the vectors of the *)
(* embeddings (a similarity is an input), the LLM stream.                  *)
(***************************************************************************)
EXTENDS Integers, Sequences, FiniteSets, TLC

\* ---------------------------------------------------------------- universe

\* Registered users (rows of the users table; user.id and email coincide).
Users == {"alice", "bob"}

\* OpenAlex work identifiers that may be uploaded.
Works == {"w1", "w2"}

\* Request slots: at most two multi-step requests are in flight at once.
Procs == {1, 2}

\* Number of requests that get past validation, over the whole run.
MaxRequests == 3

\* The number of requests served after the upload and the share that
\* InitShared starts from.
MaxFollowUps == 2

\* The number of token events a chat stream writes before it ends.
MaxTokens == 2

NoUser == "-"
NoWork == "-"

VARIABLES
    fgaStoreId,        \* process.env.FGA_STORE_ID is set (fixed for the process)
    uploadedPdfs,      \* rows [id, ownerId, workId, fileName]
    pdfShareRequests,  \* rows [id, pdfId, fromUserId, toUserId]
    pdfAccess,         \* rows [id, pdfId, userId]
    tuples,            \* the graph: [user, relation, object]
    vectorStores,      \* keys of the in-memory Map pdfId -> MemoryVectorStore
    nextPdfId,         \* next fresh uploaded_pdfs.id
    nextReqId,         \* next fresh pdf_share_requests.id
    nextAccessId,      \* next fresh pdf_access.id
    files,             \* names of the files in UPLOAD_DIR
    nextFileId,        \* next fresh file name (randomUUID)
    req,               \* slot -> the request in flight there
    last,              \* the most recent reply of a request that was started
    started,           \* number of requests started (not refused at their first lookup)
    budget             \* number of such requests the run may start

vars == <<fgaStoreId, uploadedPdfs, pdfShareRequests, pdfAccess, tuples,
          vectorStores, nextPdfId, nextReqId, nextAccessId, files, nextFileId,
          req, last, started, budget>>

db == <<uploadedPdfs, pdfShareRequests, pdfAccess, nextPdfId, nextReqId,
       nextAccessId>>

disk == <<files, nextFileId>>

\* ---------------------------------------------------------------- records

\* An empty slot.  op: the route; pc: the await the handler is parked at;
\* id: the :id parameter (or pdfId of a body); doc: the PDF row the handler
\* holds (existing.id, uploaded.id, shareRequest.pdfId); cands: the rows of
\* the candidate query; fga: the graph calls made so far with their outcome;
\* file: the fileName of the row the handler read (0: none);
\* uniqueFileName: the name an upload gave its file; isOwner: what
\* the handler computed from that row; authorized: authorizedPdfs; tokens:
\* the number of token events a chat stream has written to the caller.
Idle ==
    [op |-> "none", pc |-> "idle", user |-> NoUser, id |-> 0, work |-> NoWork,
     target |-> NoUser, doc |-> 0, cands |-> <<>>, fga |-> <<>>, file |-> 0,
     uniqueFileName |-> 0, isOwner |-> FALSE, authorized |-> <<>>,
     tokens |-> 0]

\* A request of route op by user u, parked at pc.
Running(op, pc, u, i, w, t, d) ==
    [op |-> op, pc |-> pc, user |-> u, id |-> i, work |-> w, target |-> t,
     doc |-> d, cands |-> <<>>, fga |-> <<>>, file |-> 0, uniqueFileName |-> 0,
     isOwner |-> FALSE, authorized |-> <<>>, tokens |-> 0]

\* A reply.  doc: the document it is about or whose content it carries;
\* body: the list of PDFs it carries; total: its totalAccessiblePdfs field
\* (-1: none); cands and fga: the candidate rows and the graph calls of the
\* request; authorized: the PDFs the request embedded (authorizedPdfs).
Sent(op, u, i, d, status, body, total, cands, fga) ==
    [op |-> op, user |-> u, id |-> i, doc |-> d, status |-> status,
     body |-> body, total |-> total, cands |-> cands, fga |-> fga,
     authorized |-> <<>>]

\* No reply yet.
NoReply == Sent("none", NoUser, 0, 0, 0, <<>>, -1, <<>>, <<>>)

\* reply.code(status).send(...) of the request in slot p; the slot is freed.
Reply(p, status, d) ==
    /\ last' = Sent(req[p].op, req[p].user, req[p].id, d, status, <<>>, -1,
                    req[p].cands, req[p].fga)
    /\ req' = [req EXCEPT ![p] = Idle]

\* The same, after a last graph call c.
ReplyAfter(p, status, d, c) ==
    /\ last' = Sent(req[p].op, req[p].user, req[p].id, d, status, <<>>, -1,
                    req[p].cands, Append(req[p].fga, c))
    /\ req' = [req EXCEPT ![p] = Idle]

\* A request that is turned away by its validation or at its first lookup
\* (400, 401, 404) changes nothing: it is no step, and the guard of the
\* first step of each handler is what that lookup must find.  A request
\* that is turned away later replies like any other.

\* A request that replies in its first step may start: the budget is not
\* used up.
MayStart == started < budget

\* A multi-step request may start in slot p: the slot is free, it is the
\* lowest free slot (slots are interchangeable) and the budget is not used up.
CanStart(p) ==
    /\ req[p].pc = "idle"
    /\ \A q \in Procs : q < p => req[q].pc # "idle"
    /\ started < budget

\* Identifiers issued so far (rows that exist or existed).
IssuedPdfIds == 1..(nextPdfId - 1)
IssuedReqIds == 1..(nextReqId - 1)

Range(f) == {f[i] : i \in DOMAIN f}

\* ---------------------------------------------------------------- tables

HasPdf(d) == \E r \in uploadedPdfs : r.id = d

PdfRow(d) == CHOOSE r \in uploadedPdfs : r.id = d

\* pdf.ownerId === user.id
IsOwner(d, u) == HasPdf(d) /\ PdfRow(d).ownerId = u

\* db.query.pdfAccess.findFirst({pdfId, userId})
HasAccessRow(d, u) == \E a \in pdfAccess : a.pdfId = d /\ a.userId = u

\* ---------------------------------------------------------------- graph

Tuple(u, rel, d) == [user |-> u, relation |-> rel, object |-> d]

\* fgaClient.check: the answer of the graph for a direct relation.
FgaCheck(u, rel, d) == Tuple(u, rel, d) \in tuples

\* grantDocumentAccess: fgaClient.write({writes: [tuple]}).  ok: the service
\* accepted the write.  When it did not (a transport error, or the service
\* refusing a tuple it already holds), the graph is unchanged and the
\* function rethrows.  The value is the graph after the call.
grantDocumentAccess(u, d, rel, ok) ==
    IF ok THEN tuples \cup {Tuple(u, rel, d)} ELSE tuples

\* One entry of a request's log of graph calls.
Call(kind, rel, d, outcome) ==
    [kind |-> kind, relation |-> rel, object |-> d, outcome |-> outcome]

WriteCall(rel, d, ok) == Call("write", rel, d, IF ok THEN "ok" ELSE "error")

\* ---------------------------------------------------------------- init

Init ==
    /\ fgaStoreId \in BOOLEAN
    /\ uploadedPdfs = {}
    /\ pdfShareRequests = {}
    /\ pdfAccess = {}
    /\ tuples = {}
    /\ vectorStores = {}
    /\ nextPdfId = 1
    /\ nextReqId = 1
    /\ nextAccessId = 1
    /\ files = {}
    /\ nextFileId = 1
    /\ req = [p \in Procs |-> Idle]
    /\ last = NoReply
    /\ started = 0
    /\ budget = MaxRequests

\* ---------------------------------------------------------------- upload
\* POST /api/pdfs/upload

\* The row `existing` of an upload by u for work w, if any.
Existing(u, w) == {r \in uploadedPdfs : r.ownerId = u /\ r.workId = w}

\* UploadBegin that goes to the owner tuple write before the file is saved
\* and the row is inserted.
UploadBegin_GrantsFirst(p, u, w) ==
    /\ CanStart(p)
    /\ LET existing == Existing(u, w)
           found == IF existing = {} THEN 0 ELSE (CHOOSE r \in existing : TRUE).id
           fileName == IF existing = {} THEN 0
                       ELSE (CHOOSE r \in existing : TRUE).fileName
       IN req' = [req EXCEPT ![p] =
                     IF found = 0 /\ fgaStoreId
                     THEN [Running("upload", "upload_grant_owner", u, found, w,
                                   NoUser, nextPdfId)
                              EXCEPT !.uniqueFileName = nextFileId]
                     ELSE [Running("upload", "upload_save", u, found, w,
                                   NoUser, 0)
                              EXCEPT !.file = fileName,
                                     !.uniqueFileName = nextFileId]]
    /\ nextFileId' = nextFileId + 1
    /\ started' = started + 1
    /\ UNCHANGED <<fgaStoreId, db, tuples, vectorStores, files, last, budget>>

\* The request arrives; existing = findFirst(ownerId, workId), and the
\* handler draws uniqueFileName.  The slot keeps existing.id in `id` (0: no
\* such row) and existing.fileName in `file`.
UploadBegin(p, u, w) ==
    /\ CanStart(p)
    /\ LET existing == Existing(u, w)
           found == IF existing = {} THEN 0 ELSE (CHOOSE r \in existing : TRUE).id
           fileName == IF existing = {} THEN 0
                       ELSE (CHOOSE r \in existing : TRUE).fileName
       IN req' = [req EXCEPT ![p] =
                     [Running("upload", "upload_save", u, found, w, NoUser, 0)
                         EXCEPT !.file = fileName,
                                !.uniqueFileName = nextFileId]]
    /\ nextFileId' = nextFileId + 1
    /\ started' = started + 1
    /\ UNCHANGED <<fgaStoreId, db, tuples, vectorStores, files, last, budget>>

\* await pipeline(data.file, createWriteStream(filePath)): the write stream
\* creates the file.  When the request's file stream breaks the pipeline
\* rejects and the handler's catch replies 500: the file stays on disk, with
\* no row naming it.  Otherwise the old file of an existing row is unlinked
\* next.
UploadSave(p) ==
    /\ req[p].pc = "upload_save"
    /\ files' = files \cup {req[p].uniqueFileName}
    /\ \E ok \in BOOLEAN :
         IF ok
         THEN /\ req' = [req EXCEPT ![p].pc =
                           IF req[p].id # 0 THEN "upload_unlink"
                                            ELSE "upload_write"]
              /\ UNCHANGED last
         ELSE Reply(p, 500, 0)
    /\ UNCHANGED <<fgaStoreId, db, tuples, vectorStores, nextFileId, started,
                   budget>>

\* await unlink(oldFilePath) in its try/catch: a missing file is a warning.
UploadUnlink(p) ==
    /\ req[p].pc = "upload_unlink"
    /\ files' = files \ {req[p].file}
    /\ req' = [req EXCEPT ![p].pc = "upload_write"]
    /\ UNCHANGED <<fgaStoreId, db, tuples, vectorStores, nextFileId, last,
                   started, budget>>

\* UploadWrite on a table without the unique (owner, work) constraint.
UploadWrite_Unconstrained(p) ==
    /\ req[p].pc = "upload_write"
    /\ IF req[p].id # 0
       THEN /\ IF HasPdf(req[p].id)
               THEN /\ uploadedPdfs' =
                         {IF r.id = req[p].id
                          THEN [r EXCEPT !.fileName = req[p].uniqueFileName]
                          ELSE r : r \in uploadedPdfs}
                    /\ Reply(p, 200, req[p].id)
               ELSE /\ Reply(p, 500, 0)
                    /\ UNCHANGED uploadedPdfs
            /\ UNCHANGED nextPdfId
       ELSE /\ uploadedPdfs' = uploadedPdfs \cup
                   {[id |-> nextPdfId, ownerId |-> req[p].user,
                     workId |-> req[p].work,
                     fileName |-> req[p].uniqueFileName]}
            /\ nextPdfId' = nextPdfId + 1
            /\ IF fgaStoreId
               THEN /\ req' = [req EXCEPT ![p].pc = "upload_grant_owner",
                                          ![p].doc = nextPdfId]
                    /\ UNCHANGED last
               ELSE Reply(p, 200, nextPdfId)
    /\ UNCHANGED <<fgaStoreId, pdfShareRequests, pdfAccess, nextReqId,
                   nextAccessId, tuples, vectorStores, started, budget, disk>>

\* The relational write.  existing: update the row, which now names the new
\* file (the row may be gone by now: `updated` is then undefined and the
\* handler replies 500); otherwise insert a new row (the unique (owner,
\* work) constraint refuses a row when one was inserted meanwhile: 500).
\* The update branch replies at once; the create branch goes on to the graph
\* when FGA_STORE_ID is set.
UploadWrite(p) ==
    /\ req[p].pc = "upload_write"
    /\ IF req[p].id # 0
       THEN /\ IF HasPdf(req[p].id)
               THEN /\ uploadedPdfs' =
                         {IF r.id = req[p].id
                          THEN [r EXCEPT !.fileName = req[p].uniqueFileName]
                          ELSE r : r \in uploadedPdfs}
                    /\ Reply(p, 200, req[p].id)
               ELSE /\ Reply(p, 500, 0)
                    /\ UNCHANGED uploadedPdfs
            /\ UNCHANGED nextPdfId
       ELSE IF Existing(req[p].user, req[p].work) # {}
       THEN /\ Reply(p, 500, 0)
            /\ UNCHANGED <<uploadedPdfs, nextPdfId>>
       ELSE /\ uploadedPdfs' = uploadedPdfs \cup
                   {[id |-> nextPdfId, ownerId |-> req[p].user,
                     workId |-> req[p].work,
                     fileName |-> req[p].uniqueFileName]}
            /\ nextPdfId' = nextPdfId + 1
            /\ IF fgaStoreId
               THEN /\ req' = [req EXCEPT ![p].pc = "upload_grant_owner",
                                          ![p].doc = nextPdfId]
                    /\ UNCHANGED last
               ELSE Reply(p, 200, nextPdfId)
    /\ UNCHANGED <<fgaStoreId, pdfShareRequests, pdfAccess, nextReqId,
                   nextAccessId, tuples, vectorStores, started, budget, disk>>

\* UploadGrantOwner with a try/catch of its own: the viewer write is tried
\* whatever the owner write did.
UploadGrantOwner_Continues(p) ==
    /\ req[p].pc = "upload_grant_owner"
    /\ \E ok \in BOOLEAN :
         /\ tuples' = grantDocumentAccess(req[p].user, req[p].doc, "owner", ok)
         /\ req' = [req EXCEPT ![p].pc = "upload_grant_viewer",
                       ![p].fga = Append(@, WriteCall("owner", req[p].doc, ok))]
         /\ UNCHANGED last
    /\ UNCHANGED <<fgaStoreId, db, vectorStores, started, budget, disk>>

\* UploadGrantOwner with the two grants swapped: the first write is the
\* viewer tuple.
UploadGrantOwner_ViewerFirst(p) ==
    /\ req[p].pc = "upload_grant_owner"
    /\ \E ok \in BOOLEAN :
         /\ tuples' = grantDocumentAccess(req[p].user, req[p].doc, "viewer", ok)
         /\ IF ok
            THEN /\ req' = [req EXCEPT ![p].pc = "upload_grant_viewer",
                               ![p].fga = Append(@, WriteCall("viewer", req[p].doc, ok))]
                 /\ UNCHANGED last
            ELSE ReplyAfter(p, 200, req[p].doc, WriteCall("viewer", req[p].doc, ok))
    /\ UNCHANGED <<fgaStoreId, db, vectorStores, started, budget, disk>>

\* await grantDocumentAccess(userEmail, uploaded.id, "owner").  When it
\* throws, the catch logs and the handler replies success without trying
\* the viewer tuple.
UploadGrantOwner(p) ==
    /\ req[p].pc = "upload_grant_owner"
    /\ \E ok \in BOOLEAN :
         /\ tuples' = grantDocumentAccess(req[p].user, req[p].doc, "owner", ok)
         /\ IF ok
            THEN /\ req' = [req EXCEPT ![p].pc = "upload_grant_viewer",
                               ![p].fga = Append(@, WriteCall("owner", req[p].doc, ok))]
                 /\ UNCHANGED last
            ELSE ReplyAfter(p, 200, req[p].doc, WriteCall("owner", req[p].doc, ok))
    /\ UNCHANGED <<fgaStoreId, db, vectorStores, started, budget, disk>>

\* await grantDocumentAccess(userEmail, uploaded.id, "viewer"), then the
\* reply (also when the call throws).
UploadGrantViewer(p) ==
    /\ req[p].pc = "upload_grant_viewer"
    /\ \E ok \in BOOLEAN :
         /\ tuples' = grantDocumentAccess(req[p].user, req[p].doc, "viewer", ok)
         /\ ReplyAfter(p, 200, req[p].doc, WriteCall("viewer", req[p].doc, ok))
    /\ UNCHANGED <<fgaStoreId, db, vectorStores, started, budget, disk>>

\* ---------------------------------------------------------------- share
\* POST /api/pdfs/:id/share

\* The request arrives.  400 when the target is the caller; pdf =
\* findFirst(id, ownerId = user), 404 when the caller does not own the PDF.
ShareBegin(p, u, d, t) ==
    /\ CanStart(p)
    /\ u # t
    /\ IsOwner(d, u)
    /\ req' = [req EXCEPT ![p] = Running("share", "share_lookup", u, d,
                                         NoWork, t, d)]
    /\ started' = started + 1
    /\ UNCHANGED <<fgaStoreId, db, tuples, vectorStores, last, budget, disk>>

\* existingRequest = findFirst(pdfId, toUserId): 409 when a request for
\* (pdf, target) exists; otherwise the insert comes next.
ShareLookup(p) ==
    /\ req[p].pc = "share_lookup"
    /\ IF \E s \in pdfShareRequests :
              s.pdfId = req[p].doc /\ s.toUserId = req[p].target
       THEN Reply(p, 409, 0)
       ELSE /\ req' = [req EXCEPT ![p].pc = "share_insert"]
            /\ UNCHANGED last
    /\ UNCHANGED <<fgaStoreId, db, tuples, vectorStores, started, budget, disk>>

\* ShareInsert on a table without the unique (pdf, to_user) constraint.
ShareInsert_Unconstrained(p) ==
    /\ req[p].pc = "share_insert"
    /\ IF ~ HasPdf(req[p].doc)
       THEN /\ Reply(p, 500, 0)
            /\ UNCHANGED <<pdfShareRequests, nextReqId>>
       ELSE /\ pdfShareRequests' = pdfShareRequests \cup
                   {[id |-> nextReqId, pdfId |-> req[p].doc,
                     fromUserId |-> req[p].user, toUserId |-> req[p].target]}
            /\ nextReqId' = nextReqId + 1
            /\ Reply(p, 200, req[p].doc)
    /\ UNCHANGED <<fgaStoreId, uploadedPdfs, pdfAccess, nextPdfId, nextAccessId,
                   tuples, vectorStores, started, budget, disk>>

\* db.insert(pdfShareRequests).  The foreign key refuses the row when the
\* PDF is gone and the unique (pdf, to_user) constraint refuses a second
\* row: both surface as 500.
ShareInsert(p) ==
    /\ req[p].pc = "share_insert"
    /\ IF \/ ~ HasPdf(req[p].doc)
          \/ \E s \in pdfShareRequests :
                 s.pdfId = req[p].doc /\ s.toUserId = req[p].target
       THEN /\ Reply(p, 500, 0)
            /\ UNCHANGED <<pdfShareRequests, nextReqId>>
       ELSE /\ pdfShareRequests' = pdfShareRequests \cup
                   {[id |-> nextReqId, pdfId |-> req[p].doc,
                     fromUserId |-> req[p].user, toUserId |-> req[p].target]}
            /\ nextReqId' = nextReqId + 1
            /\ Reply(p, 200, req[p].doc)
    /\ UNCHANGED <<fgaStoreId, uploadedPdfs, pdfAccess, nextPdfId, nextAccessId,
                   tuples, vectorStores, started, budget, disk>>

\* ---------------------------------------------------------------- accept
\* POST /api/pdfs/share-requests/:id/accept

\* AcceptBegin with the lookup by id alone: findFirst(id).
AcceptBegin_AnyUser(p, u, i) ==
    /\ CanStart(p)
    /\ LET found == {s \in pdfShareRequests : s.id = i}
       IN /\ found # {}
          /\ req' = [req EXCEPT ![p] = Running("accept", "accept_insert", u, i,
                        NoWork, NoUser, (CHOOSE s \in found : TRUE).pdfId)]
    /\ started' = started + 1
    /\ UNCHANGED <<fgaStoreId, db, tuples, vectorStores, last, budget, disk>>

\* The request arrives; shareRequest = findFirst(id, toUserId = user), 404
\* when there is none.
AcceptBegin(p, u, i) ==
    /\ CanStart(p)
    /\ LET found == {s \in pdfShareRequests : s.id = i /\ s.toUserId = u}
       IN /\ found # {}
          /\ req' = [req EXCEPT ![p] = Running("accept", "accept_insert", u, i,
                        NoWork, NoUser, (CHOOSE s \in found : TRUE).pdfId)]
    /\ started' = started + 1
    /\ UNCHANGED <<fgaStoreId, db, tuples, vectorStores, last, budget, disk>>

\* The insert without its conflict clause, on a table without the unique
\* (pdf, user) constraint.
AccessAfterInsert_AlwaysInserts(d, u) ==
    pdfAccess \cup {[id |-> nextAccessId, pdfId |-> d, userId |-> u]}

\* db.insert(pdfAccess).values({pdfId, userId}).onConflictDoNothing(): the
\* table after it.  A row for (pdfId, userId) that is already there is the
\* conflict, and nothing is inserted.
AccessAfterInsert(d, u) ==
    IF HasAccessRow(d, u) THEN pdfAccess
    ELSE pdfAccess \cup {[id |-> nextAccessId, pdfId |-> d, userId |-> u]}

\* AcceptInsert without the FGA_STORE_ID test: the tuple write always follows.
AcceptInsert_Ungated(p) ==
    /\ req[p].pc = "accept_insert"
    /\ IF ~ HasPdf(req[p].doc)
       THEN /\ Reply(p, 500, 0)
            /\ UNCHANGED <<pdfAccess, nextAccessId>>
       ELSE /\ pdfAccess' = AccessAfterInsert(req[p].doc, req[p].user)
            /\ nextAccessId' = nextAccessId + Cardinality(pdfAccess' \ pdfAccess)
            /\ req' = [req EXCEPT ![p].pc = "accept_grant"]
            /\ UNCHANGED last
    /\ UNCHANGED <<fgaStoreId, uploadedPdfs, pdfShareRequests, nextPdfId,
                   nextReqId, tuples, vectorStores, started, budget, disk>>

\* db.insert(pdfAccess).onConflictDoNothing().  The foreign key refuses the
\* row when the PDF is gone: 500.
AcceptInsert(p) ==
    /\ req[p].pc = "accept_insert"
    /\ IF ~ HasPdf(req[p].doc)
       THEN /\ Reply(p, 500, 0)
            /\ UNCHANGED <<pdfAccess, nextAccessId>>
       ELSE /\ pdfAccess' = AccessAfterInsert(req[p].doc, req[p].user)
            /\ nextAccessId' = nextAccessId + Cardinality(pdfAccess' \ pdfAccess)
            /\ req' = [req EXCEPT ![p].pc =
                          IF fgaStoreId THEN "accept_grant" ELSE "accept_delete"]
            /\ UNCHANGED last
    /\ UNCHANGED <<fgaStoreId, uploadedPdfs, pdfShareRequests, nextPdfId,
                   nextReqId, tuples, vectorStores, started, budget, disk>>

\* AcceptGrant without the inner try/catch: a failed write reaches the outer
\* catch, which replies 500 before the share request is deleted.
AcceptGrant_Uncaught(p) ==
    /\ req[p].pc = "accept_grant"
    /\ \E ok \in BOOLEAN :
         /\ tuples' = grantDocumentAccess(req[p].user, req[p].doc, "viewer", ok)
         /\ IF ok
            THEN /\ req' = [req EXCEPT ![p].pc = "accept_delete",
                               ![p].fga = Append(@, WriteCall("viewer", req[p].doc, ok))]
                 /\ UNCHANGED last
            ELSE ReplyAfter(p, 500, 0, WriteCall("viewer", req[p].doc, ok))
    /\ UNCHANGED <<fgaStoreId, db, vectorStores, started, budget, disk>>

\* AcceptGrant that lets the accept fail when the graph already holds the
\* tuple.
AcceptGrant_FailsOnDuplicate(p) ==
    /\ req[p].pc = "accept_grant"
    /\ IF FgaCheck(req[p].user, "viewer", req[p].doc)
       THEN /\ ReplyAfter(p, 500, 0, WriteCall("viewer", req[p].doc, FALSE))
            /\ UNCHANGED tuples
       ELSE \E ok \in BOOLEAN :
              /\ tuples' = grantDocumentAccess(req[p].user, req[p].doc, "viewer", ok)
              /\ req' = [req EXCEPT ![p].pc = "accept_delete",
                            ![p].fga = Append(@, WriteCall("viewer", req[p].doc, ok))]
              /\ UNCHANGED last
    /\ UNCHANGED <<fgaStoreId, db, vectorStores, started, budget, disk>>

\* await grantDocumentAccess(userEmail, shareRequest.pdfId, "viewer") in its
\* try/catch.
AcceptGrant(p) ==
    /\ req[p].pc = "accept_grant"
    /\ \E ok \in BOOLEAN :
         /\ tuples' = grantDocumentAccess(req[p].user, req[p].doc, "viewer", ok)
         /\ req' = [req EXCEPT ![p].pc = "accept_delete",
                       ![p].fga = Append(@, WriteCall("viewer", req[p].doc, ok))]
    /\ UNCHANGED <<fgaStoreId, db, vectorStores, last, started, budget, disk>>

\* db.delete(pdfShareRequests).where(id), then the reply.
AcceptDelete(p) ==
    /\ req[p].pc = "accept_delete"
    /\ pdfShareRequests' = {s \in pdfShareRequests : s.id # req[p].id}
    /\ Reply(p, 200, req[p].doc)
    /\ UNCHANGED <<fgaStoreId, uploadedPdfs, pdfAccess, nextPdfId, nextReqId, nextAccessId,
                   tuples, vectorStores, started, budget, disk>>

\* ---------------------------------------------------------------- reject
\* POST /api/pdfs/share-requests/:id/reject

\* The request arrives; shareRequest = findFirst(id, toUserId = user), 404
\* when there is none.
RejectBegin(p, u, i) ==
    /\ CanStart(p)
    /\ LET found == {s \in pdfShareRequests : s.id = i /\ s.toUserId = u}
       IN /\ found # {}
          /\ req' = [req EXCEPT ![p] = Running("reject", "reject_delete", u, i,
                        NoWork, NoUser, (CHOOSE s \in found : TRUE).pdfId)]
    /\ started' = started + 1
    /\ UNCHANGED <<fgaStoreId, db, tuples, vectorStores, last, budget, disk>>

\* RejectDelete that also records the access row, as the accept does.
RejectDelete_AlsoGrants(p) ==
    /\ req[p].pc = "reject_delete"
    /\ pdfShareRequests' = {s \in pdfShareRequests : s.id # req[p].id}
    /\ pdfAccess' = IF HasPdf(req[p].doc)
                    THEN AccessAfterInsert(req[p].doc, req[p].user)
                    ELSE pdfAccess
    /\ nextAccessId' = nextAccessId + Cardinality(pdfAccess' \ pdfAccess)
    /\ Reply(p, 200, req[p].doc)
    /\ UNCHANGED <<fgaStoreId, uploadedPdfs, nextPdfId, nextReqId,
                   tuples, vectorStores, started, budget, disk>>

\* db.delete(pdfShareRequests).where(id), then the reply.
RejectDelete(p) ==
    /\ req[p].pc = "reject_delete"
    /\ pdfShareRequests' = {s \in pdfShareRequests : s.id # req[p].id}
    /\ Reply(p, 200, req[p].doc)
    /\ UNCHANGED <<fgaStoreId, uploadedPdfs, pdfAccess, nextPdfId, nextReqId, nextAccessId,
                   tuples, vectorStores, started, budget, disk>>

\* ---------------------------------------------------------------- delete
\* DELETE /api/pdfs/:id

\* The request arrives; pdf = findFirst(id, ownerId = user), 404 when there
\* is none.
DeleteBegin(p, u, d) ==
    /\ CanStart(p)
    /\ IsOwner(d, u)
    /\ req' = [req EXCEPT ![p] =
                  [Running("delete", "delete_unlink", u, d, NoWork, NoUser, d)
                      EXCEPT !.file = PdfRow(d).fileName]]
    /\ started' = started + 1
    /\ UNCHANGED <<fgaStoreId, db, tuples, vectorStores, last, budget, disk>>

\* await unlink(filePath) in its try/catch: a missing file is a warning.
DeleteUnlink(p) ==
    /\ req[p].pc = "delete_unlink"
    /\ files' = files \ {req[p].file}
    /\ req' = [req EXCEPT ![p].pc = "delete_row"]
    /\ UNCHANGED <<fgaStoreId, db, tuples, vectorStores, nextFileId, last,
                   started, budget>>

\* DeleteRow on tables whose foreign keys do not cascade: only the PDF row
\* goes.
DeleteRow_NoCascade(p) ==
    /\ req[p].pc = "delete_row"
    /\ uploadedPdfs' = {r \in uploadedPdfs : r.id # req[p].id}
    /\ Reply(p, 200, req[p].id)
    /\ UNCHANGED <<fgaStoreId, pdfShareRequests, pdfAccess, nextPdfId, nextReqId,
                   nextAccessId, tuples, vectorStores, started, budget, disk>>

\* db.delete(uploadedPdfs).where(id): the cascade removes the share requests
\* and access rows of the PDF.  No graph call and no vector-store eviction.
DeleteRow(p) ==
    /\ req[p].pc = "delete_row"
    /\ uploadedPdfs' = {r \in uploadedPdfs : r.id # req[p].id}
    /\ pdfShareRequests' = {s \in pdfShareRequests : s.pdfId # req[p].id}
    /\ pdfAccess' = {a \in pdfAccess : a.pdfId # req[p].id}
    /\ Reply(p, 200, req[p].id)
    /\ UNCHANGED <<fgaStoreId, nextPdfId, nextReqId, nextAccessId, tuples,
                   vectorStores, started, budget, disk>>

\* ---------------------------------------------------------------- download
\* GET /api/pdfs/:id

\* The request arrives; pdf = findFirst(id), 404 when there is none.  The
\* slot keeps pdf.fileName and isOwner = (pdf.ownerId === user.id).
DownloadBegin(p, u, d) ==
    /\ CanStart(p)
    /\ HasPdf(d)
    /\ req' = [req EXCEPT ![p] =
                  [Running("download", "download_access", u, d, NoWork, NoUser, d)
                      EXCEPT !.file = PdfRow(d).fileName,
                             !.isOwner = (PdfRow(d).ownerId = u)]]
    /\ started' = started + 1
    /\ UNCHANGED <<fgaStoreId, db, tuples, vectorStores, last, budget, disk>>

\* hasAccess = findFirst(pdfId, userId): 403 when the caller neither owns the
\* PDF nor has an access row; otherwise the handler calls
\* reply.sendFile(pdf.fileName).
DownloadAccess(p) ==
    /\ req[p].pc = "download_access"
    /\ IF ~ req[p].isOwner /\ ~ HasAccessRow(req[p].id, req[p].user)
       THEN Reply(p, 403, 0)
       ELSE /\ req' = [req EXCEPT ![p].pc = "download_send"]
            /\ UNCHANGED last
    /\ UNCHANGED <<fgaStoreId, db, tuples, vectorStores, started, budget, disk>>

\* reply.sendFile looks the file up on disk: 404 when it is not there,
\* otherwise the file is sent.
DownloadSend(p) ==
    /\ req[p].pc = "download_send"
    /\ IF req[p].file \notin files
       THEN Reply(p, 404, 0)
       ELSE Reply(p, 200, req[p].id)
    /\ UNCHANGED <<fgaStoreId, db, tuples, vectorStores, started, budget, disk>>

\* ---------------------------------------------------------------- RAG
\* POST /api/pdf-rag/load

\* The request arrives; pdf = findFirst(id), 404 when there is none.
RagLoadBegin(p, u, d) ==
    /\ CanStart(p)
    /\ HasPdf(d)
    /\ req' = [req EXCEPT ![p] =
                  [Running("rag_load", "rag_access", u, d, NoWork, NoUser, d)
                      EXCEPT !.file = PdfRow(d).fileName,
                             !.isOwner = (PdfRow(d).ownerId = u)]]
    /\ started' = started + 1
    /\ UNCHANGED <<fgaStoreId, db, tuples, vectorStores, last, budget, disk>>

\* hasAccess = findFirst(pdfId, userId): 403 when the caller neither owns the
\* PDF nor has an access row.  When the vector store is already in the map
\* the handler replies at once; otherwise loadPDF reads the file.
RagLoadAccess(p) ==
    /\ req[p].pc = "rag_access"
    /\ IF ~ req[p].isOwner /\ ~ HasAccessRow(req[p].id, req[p].user)
       THEN Reply(p, 403, 0)
       ELSE IF req[p].id \in vectorStores
       THEN Reply(p, 200, req[p].id)
       ELSE /\ req' = [req EXCEPT ![p].pc = "rag_read"]
            /\ UNCHANGED last
    /\ UNCHANGED <<fgaStoreId, db, tuples, vectorStores, started, budget, disk>>

\* await loadPDF(pdfPath): readFile throws when the file is not on disk
\* (500); otherwise the embeddings are asked for.
RagLoadRead(p) ==
    /\ req[p].pc = "rag_read"
    /\ IF req[p].file \notin files
       THEN Reply(p, 500, 0)
       ELSE /\ req' = [req EXCEPT ![p].pc = "rag_embed"]
            /\ UNCHANGED last
    /\ UNCHANGED <<fgaStoreId, db, tuples, vectorStores, started, budget, disk>>

\* await MemoryVectorStore.fromDocuments(docs, embeddings): when the
\* embedding service fails the handler replies 500; otherwise
\* vectorStores.set(pdfId, vectorStore), then the reply.
RagLoadStore(p) ==
    /\ req[p].pc = "rag_embed"
    /\ \E ok \in BOOLEAN :
         IF ok
         THEN /\ vectorStores' = vectorStores \cup {req[p].doc}
              /\ Reply(p, 200, req[p].doc)
         ELSE /\ Reply(p, 500, 0)
              /\ UNCHANGED vectorStores
    /\ UNCHANGED <<fgaStoreId, db, tuples, started, budget, disk>>

\* POST /api/pdf-rag/query.  The request arrives; vectorStores.get(pdfId),
\* 404 when no store is loaded for pdfId.  The caller is not looked up.
RagQueryBegin(p, u, d) ==
    /\ CanStart(p)
    /\ d \in vectorStores
    /\ req' = [req EXCEPT ![p] = Running("rag_query", "rag_search", u, d,
                                         NoWork, NoUser, d)]
    /\ started' = started + 1
    /\ UNCHANGED <<fgaStoreId, db, tuples, vectorStores, last, budget, disk>>

\* await vectorStore.similaritySearch(query, k), on the store the handler
\* holds: the chunks of the PDF that match the query, or 500 when the
\* embedding service fails.
RagQuerySearch(p) ==
    /\ req[p].pc = "rag_search"
    /\ \E ok \in BOOLEAN :
         IF ok THEN Reply(p, 200, req[p].doc) ELSE Reply(p, 500, 0)
    /\ UNCHANGED <<fgaStoreId, db, tuples, vectorStores, started, budget, disk>>

\* POST /chat/stream with a pdfId.  The request arrives; when
\* getVectorStore(pdfId) finds a store the handler searches it.  (Without a
\* store the chat goes on without PDF context: no document is involved and
\* it is no step.)
ChatStreamBegin(p, u, d) ==
    /\ CanStart(p)
    /\ d \in vectorStores
    /\ req' = [req EXCEPT ![p] = Running("chat_stream", "chat_search", u, d,
                                         NoWork, NoUser, d)]
    /\ started' = started + 1
    /\ UNCHANGED <<fgaStoreId, db, tuples, vectorStores, last, budget, disk>>

\* The reply of a chat stream is a stream of events under an HTTP 200 head
\* that is written before anything is awaited.  In the reply record, status
\* is the event that closes the stream (200: done, 500: "Stream failed") and
\* doc is the PDF whose content the token events written before it were
\* built on (0: no token event was written).
ChatStreamClose(p, status) ==
    Reply(p, status, IF req[p].tokens > 0 THEN req[p].doc ELSE 0)

\* await vectorStore.similaritySearch(message, 3), on the store the handler
\* holds: the chunks that match the message are put in the prompt.  When the
\* search fails the catch closes the stream with "Stream failed".
ChatStreamSearch(p) ==
    /\ req[p].pc = "chat_search"
    /\ \E ok \in BOOLEAN :
         IF ok
         THEN /\ req' = [req EXCEPT ![p].pc = "chat_model"]
              /\ UNCHANGED last
         ELSE ChatStreamClose(p, 500)
    /\ UNCHANGED <<fgaStoreId, db, tuples, vectorStores, started, budget, disk>>

\* await model.stream(messages): the language model takes the prompt and
\* opens its stream, or fails.
ChatStreamModel(p) ==
    /\ req[p].pc = "chat_model"
    /\ \E ok \in BOOLEAN :
         IF ok
         THEN /\ req' = [req EXCEPT ![p].pc = "chat_tokens"]
              /\ UNCHANGED last
         ELSE ChatStreamClose(p, 500)
    /\ UNCHANGED <<fgaStoreId, db, tuples, vectorStores, started, budget, disk>>

\* One turn of `for await (const chunk of stream)`: the next chunk arrives
\* and is written to the caller as a token event, an answer built on the
\* PDF's chunks; or the stream is over and the handler writes the done
\* event; or the stream throws and the catch writes "Stream failed" after
\* the tokens already written.
ChatStreamNext(p) ==
    /\ req[p].pc = "chat_tokens"
    /\ \E outcome \in {"chunk", "done", "error"} :
         CASE outcome = "chunk" ->
                /\ req[p].tokens < MaxTokens
                /\ req' = [req EXCEPT ![p].tokens = @ + 1]
                /\ UNCHANGED last
           [] outcome = "done" -> ChatStreamClose(p, 200)
           [] outcome = "error" -> ChatStreamClose(p, 500)
    /\ UNCHANGED <<fgaStoreId, db, tuples, vectorStores, started, budget, disk>>

\* DELETE /api/pdf-rag/unload/:pdfId: 404 when not loaded.
RagUnload(u, d) ==
    /\ MayStart
    /\ d \in vectorStores
    /\ vectorStores' = vectorStores \ {d}
    /\ last' = Sent("rag_unload", u, d, 0, 200, <<>>, -1, <<>>, <<>>)
    /\ started' = started + 1
    /\ UNCHANGED <<fgaStoreId, db, tuples, req, budget, disk>>

\* ---------------------------------------------------------------- suggest
\* POST /api/pdf-suggestions/suggest

\* RowCount without the WHERE clause: every PDF of the table gives a row.
RowCount_AnyUser(u, d) == IF HasPdf(d) THEN 1 ELSE 0

\* Rows of uploadedPdfs LEFT JOIN pdfAccess that carry PDF d and pass
\* WHERE ownerId = user OR pdfAccess.userId = user: a PDF without access
\* rows gives one row (access columns NULL), a PDF with access rows gives
\* one row per access row.
RowCount(u, d) ==
    LET A == {a \in pdfAccess : a.pdfId = d}
    IN IF ~ HasPdf(d) THEN 0
       ELSE IF PdfRow(d).ownerId = u
       THEN (IF A = {} THEN 1 ELSE Cardinality(A))
       ELSE Cardinality({a \in A : a.userId = u})

Occurrences(s, d) == Cardinality({i \in DOMAIN s : s[i] = d})

TotalRows(u) ==
    LET Sum[S \in SUBSET IssuedPdfIds] ==
            IF S = {} THEN 0
            ELSE LET d == CHOOSE x \in S : TRUE
                 IN RowCount(u, d) + Sum[S \ {d}]
    IN Sum[IssuedPdfIds]

\* The results the candidate query may give: the matching rows in any order
\* (the query has no ORDER BY).  Only the id column is kept.
AccessiblePdfs(u) ==
    {s \in [1..TotalRows(u) -> IssuedPdfIds] :
        \A d \in IssuedPdfIds : Occurrences(s, d) = RowCount(u, d)}

\* batchCheckDocumentAccess with a catch around each check: a check that
\* rejects turns only its own document to false.
batchCheckDocumentAccess_PerItem(documentIds, log) ==
    [d \in Range(documentIds) |->
        LET index == CHOOSE i \in DOMAIN documentIds :
                        /\ documentIds[i] = d
                        /\ \A j \in DOMAIN documentIds : documentIds[j] = d => j <= i
        IN log[index].outcome = "allowed"]

\* batchCheckDocumentAccess(userEmail, documentIds): its result, given the
\* answers log of the checks it issued.  results[docId] =
\* responses[index].allowed for each index in turn (a later index overwrites
\* an earlier one of the same document); Promise.all rejects when one check
\* does, and the catch then sets every document to false.
batchCheckDocumentAccess(documentIds, log) ==
    [d \in Range(documentIds) |->
        LET index == CHOOSE i \in DOMAIN documentIds :
                        /\ documentIds[i] = d
                        /\ \A j \in DOMAIN documentIds : documentIds[j] = d => j <= i
        IN /\ \A i \in DOMAIN log : log[i].outcome # "error"
           /\ log[index].outcome = "allowed"]

\* The filter with its predicate dropped: every id is kept.
AuthorizedPdfIds_Unfiltered(pdfIds, accessResults) == pdfIds

\* authorizedPdfIds = pdfIds.filter(id => accessResults[id])
AuthorizedPdfIds(pdfIds, accessResults) ==
    SelectSeq(pdfIds, LAMBDA id : accessResults[id])

\* The second filter with its test negated.
AuthorizedPdfs_Excluding(accessiblePdfs, authorizedPdfIds) ==
    SelectSeq(accessiblePdfs, LAMBDA id : id \notin Range(authorizedPdfIds))

\* authorizedPdfs = accessiblePdfs.filter(pdf => authorizedPdfIds.includes(pdf.id))
AuthorizedPdfs(accessiblePdfs, authorizedPdfIds) ==
    SelectSeq(accessiblePdfs, LAMBDA id : id \in Range(authorizedPdfIds))

\* The similarities the embedding service may lead to, in percent.
Scores == {10, 50, 90}

\* .filter(s => s.similarity > 0.3), in percent.
Threshold == 30

\* .slice(0, 5)
TopK == 5

\* similarities.sort((a, b) => b.similarity - a.similarity): the positions of
\* authorizedPdfs by descending similarity (the sort is stable).
SortBySimilarity(sim) ==
    LET n == Cardinality(DOMAIN sim)
    IN CHOOSE s \in [1..n -> 1..n] :
          \A i, j \in 1..n :
              i < j => \/ sim[s[i]] > sim[s[j]]
                       \/ sim[s[i]] = sim[s[j]] /\ s[i] < s[j]

\* topSuggestions: sorted, cut to the first five, and those above the
\* threshold kept.  Only the id is kept.
TopSuggestions(authorizedPdfs, sim) ==
    LET sorted == SortBySimilarity(sim)
        top == SubSeq(sorted, 1, IF Len(sorted) < TopK THEN Len(sorted) ELSE TopK)
        kept == SelectSeq(top, LAMBDA i : sim[i] > Threshold)
    IN [k \in DOMAIN kept |-> authorizedPdfs[kept[k]]]

\* SuggestSend with totalAccessiblePdfs = accessiblePdfs.length.
SuggestSend_CountsCandidates(u, accessiblePdfs, authorizedPdfs, log, sim) ==
    [Sent("suggest", u, 0, 0, 200, TopSuggestions(authorizedPdfs, sim),
          Len(accessiblePdfs), accessiblePdfs, log)
        EXCEPT !.authorized = authorizedPdfs]

\* The reply with suggestions: topSuggestions and totalAccessiblePdfs =
\* authorizedPdfs.length.  sim: the similarity of each authorized PDF to the
\* query.
SuggestSend(u, accessiblePdfs, authorizedPdfs, log, sim) ==
    [Sent("suggest", u, 0, 0, 200, TopSuggestions(authorizedPdfs, sim),
          Len(authorizedPdfs), accessiblePdfs, log)
        EXCEPT !.authorized = authorizedPdfs]

\* SuggestBegin without the early return on an empty candidate list: with
\* FGA_STORE_ID set the handler calls batchCheckDocumentAccess whatever the
\* list.
SuggestBegin_NoShortCircuit(p, u) ==
    /\ CanStart(p)
    /\ \E accessiblePdfs \in AccessiblePdfs(u) :
         LET authorizedPdfs == AuthorizedPdfs(accessiblePdfs, accessiblePdfs)
         IN IF accessiblePdfs = <<>> /\ ~ fgaStoreId
            THEN /\ last' = Sent("suggest", u, 0, 0, 200, <<>>, -1, <<>>, <<>>)
                 /\ UNCHANGED req
            ELSE IF fgaStoreId
            THEN /\ req' = [req EXCEPT ![p] =
                    [Running("suggest", "suggest_check", u, 0, NoWork, NoUser, 0)
                        EXCEPT !.cands = accessiblePdfs]]
                 /\ UNCHANGED last
            ELSE IF authorizedPdfs = <<>>
            THEN /\ last' = Sent("suggest", u, 0, 0, 200, <<>>, -1,
                                 accessiblePdfs, <<>>)
                 /\ UNCHANGED req
            ELSE /\ req' = [req EXCEPT ![p] =
                    [Running("suggest", "suggest_embed", u, 0, NoWork, NoUser, 0)
                        EXCEPT !.cands = accessiblePdfs,
                               !.authorized = authorizedPdfs]]
                 /\ UNCHANGED last
    /\ started' = started + 1
    /\ UNCHANGED <<fgaStoreId, db, tuples, vectorStores, budget, disk>>

\* The request arrives and the candidate query runs.  No candidate: the
\* reply is an empty list.  FGA_STORE_ID set: the batch check comes next.
\* Otherwise authorizedPdfIds is every candidate's id, the second filter
\* runs, and the embeddings come next (or, with no authorized PDF, the reply
\* is an empty list).
SuggestBegin(p, u) ==
    /\ CanStart(p)
    /\ \E accessiblePdfs \in AccessiblePdfs(u) :
         LET authorizedPdfs == AuthorizedPdfs(accessiblePdfs, accessiblePdfs)
         IN IF accessiblePdfs = <<>>
            THEN /\ last' = Sent("suggest", u, 0, 0, 200, <<>>, -1, <<>>, <<>>)
                 /\ UNCHANGED req
            ELSE IF fgaStoreId
            THEN /\ req' = [req EXCEPT ![p] =
                    [Running("suggest", "suggest_check", u, 0, NoWork, NoUser, 0)
                        EXCEPT !.cands = accessiblePdfs]]
                 /\ UNCHANGED last
            ELSE IF authorizedPdfs = <<>>
            THEN /\ last' = Sent("suggest", u, 0, 0, 200, <<>>, -1,
                                 accessiblePdfs, <<>>)
                 /\ UNCHANGED req
            ELSE /\ req' = [req EXCEPT ![p] =
                    [Running("suggest", "suggest_embed", u, 0, NoWork, NoUser, 0)
                        EXCEPT !.cands = accessiblePdfs,
                               !.authorized = authorizedPdfs]]
                 /\ UNCHANGED last
    /\ started' = started + 1
    /\ UNCHANGED <<fgaStoreId, db, tuples, vectorStores, budget, disk>>

\* batchCheckDocumentAccess step by step, as the handler awaits it: the
\* checks are issued, the graph answers them one by one in any order, and
\* Promise.all settles.

\* checks.map(check => fgaClient.check(check)): map calls fgaClient.check
\* for the first document only; the others would be called later.
BatchIssue_FirstOnly(p) ==
    /\ req[p].pc = "suggest_check"
    /\ req' = [req EXCEPT ![p].pc = "batch_await",
                  ![p].fga = <<Call("check", "viewer", req[p].cands[1], "pending")>>]
    /\ UNCHANGED <<fgaStoreId, db, tuples, vectorStores, last, started, budget, disk>>

\* checks.map(check => fgaClient.check(check)): map calls fgaClient.check
\* for every document in turn, without awaiting; Promise.all then awaits the
\* promises.
BatchIssue(p) ==
    /\ req[p].pc = "suggest_check"
    /\ req' = [req EXCEPT ![p].pc = "batch_await",
                  ![p].fga = [i \in DOMAIN req[p].cands |->
                                 Call("check", "viewer", req[p].cands[i], "pending")]]
    /\ UNCHANGED <<fgaStoreId, db, tuples, vectorStores, last, started, budget, disk>>

\* The graph answers check i: allowed or not, or an error.
BatchAnswer(p, i) ==
    /\ req[p].pc = "batch_await"
    /\ i \in DOMAIN req[p].fga
    /\ req[p].fga[i].outcome = "pending"
    /\ \E failed \in BOOLEAN :
         req' = [req EXCEPT ![p].fga[i].outcome =
                    IF failed THEN "error"
                    ELSE IF FgaCheck(req[p].user, "viewer", req[p].fga[i].object)
                    THEN "allowed" ELSE "denied"]
    /\ UNCHANGED <<fgaStoreId, db, tuples, vectorStores, last, started, budget, disk>>

\* Promise.all settles: fulfilled once every check is answered, rejected as
\* soon as one check has failed.  Then the two filters; when no PDF is
\* authorized the reply is an empty list, otherwise the embeddings come
\* next.
BatchSettle(p) ==
    /\ req[p].pc = "batch_await"
    /\ \/ \A i \in DOMAIN req[p].fga : req[p].fga[i].outcome # "pending"
       \/ \E i \in DOMAIN req[p].fga : req[p].fga[i].outcome = "error"
    /\ LET pdfIds == req[p].cands
           accessResults == batchCheckDocumentAccess(pdfIds, req[p].fga)
           authorizedPdfIds == AuthorizedPdfIds(pdfIds, accessResults)
           authorizedPdfs == AuthorizedPdfs(pdfIds, authorizedPdfIds)
       IN IF authorizedPdfs = <<>>
          THEN /\ last' = Sent("suggest", req[p].user, 0, 0, 200, <<>>, -1,
                               pdfIds, req[p].fga)
               /\ req' = [req EXCEPT ![p] = Idle]
          ELSE /\ req' = [req EXCEPT ![p].pc = "suggest_embed",
                              ![p].authorized = authorizedPdfs]
               /\ UNCHANGED last
    /\ UNCHANGED <<fgaStoreId, db, tuples, vectorStores, started, budget, disk>>

\* await embeddings.embedQuery(query): when the embedding service fails the
\* handler replies 500; otherwise the texts of the authorized PDFs are
\* embedded next.
SuggestEmbedQuery(p) ==
    /\ req[p].pc = "suggest_embed"
    /\ \E ok \in BOOLEAN :
         IF ok
         THEN /\ req' = [req EXCEPT ![p].pc = "suggest_embed_docs"]
              /\ UNCHANGED last
         ELSE /\ last' = [Sent("suggest", req[p].user, 0, 0, 500, <<>>, -1,
                               req[p].cands, req[p].fga)
                             EXCEPT !.authorized = req[p].authorized]
              /\ req' = [req EXCEPT ![p] = Idle]
    /\ UNCHANGED <<fgaStoreId, db, tuples, vectorStores, started, budget, disk>>

\* await embeddings.embedDocuments(pdfTexts): when the embedding service
\* fails the handler replies 500; otherwise the similarities are computed
\* and ranked and the reply is sent.
SuggestEmbedDocuments(p) ==
    /\ req[p].pc = "suggest_embed_docs"
    /\ \/ last' = [Sent("suggest", req[p].user, 0, 0, 500, <<>>, -1,
                        req[p].cands, req[p].fga)
                      EXCEPT !.authorized = req[p].authorized]
       \/ \E sim \in [DOMAIN req[p].authorized -> Scores] :
             last' = SuggestSend(req[p].user, req[p].cands, req[p].authorized,
                                 req[p].fga, sim)
    /\ req' = [req EXCEPT ![p] = Idle]
    /\ UNCHANGED <<fgaStoreId, db, tuples, vectorStores, started, budget, disk>>

\* ---------------------------------------------------------------- next

Next ==
    \/ \E p \in Procs :
        \/ \E u \in Users, w \in Works : UploadBegin(p, u, w)
        \/ UploadSave(p)
        \/ UploadUnlink(p)
        \/ UploadWrite(p)
        \/ UploadGrantOwner(p)
        \/ UploadGrantViewer(p)
        \/ \E u \in Users, d \in IssuedPdfIds, t \in Users : ShareBegin(p, u, d, t)
        \/ ShareLookup(p)
        \/ ShareInsert(p)
        \/ \E u \in Users, i \in IssuedReqIds : AcceptBegin(p, u, i)
        \/ AcceptInsert(p)
        \/ AcceptGrant(p)
        \/ AcceptDelete(p)
        \/ \E u \in Users, i \in IssuedReqIds : RejectBegin(p, u, i)
        \/ RejectDelete(p)
        \/ \E u \in Users, d \in IssuedPdfIds : DeleteBegin(p, u, d)
        \/ DeleteUnlink(p)
        \/ DeleteRow(p)
        \/ \E u \in Users, d \in IssuedPdfIds : DownloadBegin(p, u, d)
        \/ DownloadAccess(p)
        \/ DownloadSend(p)
        \/ \E u \in Users, d \in IssuedPdfIds : RagLoadBegin(p, u, d)
        \/ RagLoadAccess(p)
        \/ RagLoadRead(p)
        \/ RagLoadStore(p)
        \/ \E u \in Users, d \in IssuedPdfIds : RagQueryBegin(p, u, d)
        \/ RagQuerySearch(p)
        \/ \E u \in Users, d \in IssuedPdfIds : ChatStreamBegin(p, u, d)
        \/ ChatStreamSearch(p)
        \/ ChatStreamModel(p)
        \/ ChatStreamNext(p)
        \/ \E u \in Users : SuggestBegin(p, u)
        \/ BatchIssue(p)
        \/ \E i \in DOMAIN req[p].fga : BatchAnswer(p, i)
        \/ BatchSettle(p)
        \/ SuggestEmbedQuery(p)
        \/ SuggestEmbedDocuments(p)
    \/ \E u \in Users, d \in IssuedPdfIds : RagUnload(u, d)

Spec == Init /\ [][Next]_vars

\* The server after alice has uploaded a first PDF and the upload has
\* replied: the state every other handler needs before it can do anything.
\* With FGA_STORE_ID set the upload's owner write failed, or its viewer
\* write failed, or both went through.
InitUploaded ==
    /\ fgaStoreId \in BOOLEAN
    /\ uploadedPdfs = {[id |-> 1, ownerId |-> "alice", workId |-> "w1",
                        fileName |-> 1]}
    /\ files = {1}
    /\ nextFileId = 2
    /\ pdfShareRequests = {}
    /\ pdfAccess = {}
    /\ \E log \in IF fgaStoreId
                   THEN {<<WriteCall("owner", 1, FALSE)>>,
                         <<WriteCall("owner", 1, TRUE), WriteCall("viewer", 1, FALSE)>>,
                         <<WriteCall("owner", 1, TRUE), WriteCall("viewer", 1, TRUE)>>}
                   ELSE {<<>>} :
          /\ tuples = {Tuple("alice", log[i].relation, 1) :
                          i \in {j \in DOMAIN log : log[j].outcome = "ok"}}
          /\ last = Sent("upload", "alice", 0, 1, 200, <<>>, -1, <<>>, log)
    /\ vectorStores = {}
    /\ nextPdfId = 2
    /\ nextReqId = 1
    /\ nextAccessId = 1
    /\ req = [p \in Procs |-> Idle]
    /\ started = 0
    /\ budget = MaxFollowUps

SpecUploaded == InitUploaded /\ [][Next]_vars

\* The server after alice has uploaded a PDF and shared it with bob: the
\* state the accept and reject handlers start from.  Two earlier shares of
\* the PDF may have been accepted already, one by bob (the PDF is then shared
\* with him again) and one by carol, a user who makes no request here.  The graph
\* holds what the upload's two writes left (nothing, the owner tuple, or
\* both) and the viewer tuples the earlier accepts wrote: an accept whose
\* write failed kept its access row and left no tuple.
InitShared ==
    /\ fgaStoreId \in BOOLEAN
    /\ uploadedPdfs = {[id |-> 1, ownerId |-> "alice", workId |-> "w1",
                        fileName |-> 1]}
    /\ files = {1}
    /\ nextFileId = 2
    /\ pdfAccess \in {{},
                      {[id |-> 1, pdfId |-> 1, userId |-> "bob"],
                       [id |-> 2, pdfId |-> 1, userId |-> "carol"]}}
    /\ nextAccessId = Cardinality(pdfAccess) + 1
    /\ pdfShareRequests = {[id |-> nextAccessId, pdfId |-> 1,
                            fromUserId |-> "alice", toUserId |-> "bob"]}
    /\ nextReqId = nextAccessId + 1
    /\ tuples \in IF fgaStoreId
                  THEN {o \cup v :
                          o \in {{}, {Tuple("alice", "owner", 1)},
                                 {Tuple("alice", "owner", 1),
                                  Tuple("alice", "viewer", 1)}},
                          v \in SUBSET {Tuple(a.userId, "viewer", 1) :
                                           a \in pdfAccess}}
                  ELSE {{}}
    /\ vectorStores = {}
    /\ nextPdfId = 2
    /\ req = [p \in Procs |-> Idle]
    /\ last = Sent("share", "alice", 1, 1, 200, <<>>, -1, <<>>, <<>>)
    /\ started = 0
    /\ budget = MaxFollowUps

SpecShared == InitShared /\ [][Next]_vars

\* The requests that write the relational tables, the graph or the disk:
\* upload, share, accept, reject and delete.  The other handlers (download,
\* RAG, suggestions) read the tables and the graph and write neither.
NextWrites ==
    \E p \in Procs :
        \/ \E u \in Users, w \in Works : UploadBegin(p, u, w)
        \/ UploadSave(p)
        \/ UploadUnlink(p)
        \/ UploadWrite(p)
        \/ UploadGrantOwner(p)
        \/ UploadGrantViewer(p)
        \/ \E u \in Users, d \in IssuedPdfIds, t \in Users : ShareBegin(p, u, d, t)
        \/ ShareLookup(p)
        \/ ShareInsert(p)
        \/ \E u \in Users, i \in IssuedReqIds : AcceptBegin(p, u, i)
        \/ AcceptInsert(p)
        \/ AcceptGrant(p)
        \/ AcceptDelete(p)
        \/ \E u \in Users, i \in IssuedReqIds : RejectBegin(p, u, i)
        \/ RejectDelete(p)
        \/ \E u \in Users, d \in IssuedPdfIds : DeleteBegin(p, u, d)
        \/ DeleteUnlink(p)
        \/ DeleteRow(p)

\* The writing requests from the state the accept handler starts from.
SpecSharedWrites == InitShared /\ [][NextWrites]_vars

\* A handler parked at an await is resumed once the awaited promise settles.
\* The relational store and the disk respond: every await of a relational
\* statement or of a file operation of these handlers settles.
\* Nothing is assumed of the graph (an await of fgaClient.write may never
\* settle) nor of the embedding service.
RelationalStoreResponds ==
    \A p \in Procs :
        /\ WF_vars(UploadSave(p))
        /\ WF_vars(UploadUnlink(p))
        /\ WF_vars(UploadWrite(p))
        /\ WF_vars(ShareLookup(p))
        /\ WF_vars(ShareInsert(p))
        /\ WF_vars(AcceptInsert(p))
        /\ WF_vars(AcceptDelete(p))
        /\ WF_vars(RejectDelete(p))
        /\ WF_vars(DeleteUnlink(p))
        /\ WF_vars(DeleteRow(p))

SpecRelationalResponds == Init /\ [][Next]_vars /\ RelationalStoreResponds

\* ---------------------------------------------------------------- batch

\* The server after alice has uploaded two PDFs, each upload having written
\* none, the first or both of its tuples, and has downloaded the first.
InitBatch ==
    /\ fgaStoreId = TRUE
    /\ uploadedPdfs = {[id |-> 1, ownerId |-> "alice", workId |-> "w1",
                        fileName |-> 1],
                       [id |-> 2, ownerId |-> "alice", workId |-> "w2",
                        fileName |-> 2]}
    /\ files = {1, 2}
    /\ nextFileId = 3
    /\ pdfShareRequests = {}
    /\ pdfAccess = {}
    /\ tuples \in {o1 \cup o2 :
                     o1 \in {{}, {Tuple("alice", "owner", 1)},
                             {Tuple("alice", "owner", 1), Tuple("alice", "viewer", 1)}},
                     o2 \in {{}, {Tuple("alice", "owner", 2)},
                             {Tuple("alice", "owner", 2), Tuple("alice", "viewer", 2)}}}
    /\ vectorStores = {}
    /\ nextPdfId = 3
    /\ nextReqId = 1
    /\ nextAccessId = 1
    /\ req = [p \in Procs |-> Idle]
    /\ last = Sent("download", "alice", 1, 1, 200, <<>>, -1, <<>>, <<>>)
    /\ started = 0
    /\ budget = MaxFollowUps

\* Suggestion requests only.
NextBatch ==
    \E p \in Procs :
        \/ \E u \in Users : SuggestBegin(p, u)
        \/ BatchIssue(p)
        \/ \E i \in DOMAIN req[p].fga : BatchAnswer(p, i)
        \/ BatchSettle(p)
        \/ SuggestEmbedQuery(p)
        \/ SuggestEmbedDocuments(p)

SpecBatch == InitBatch /\ [][NextBatch]_vars

\* ---------------------------------------------------------------- lib/fga
\* The functions of lib/fga.ts that no route calls, applied directly by a
\* caller of the library to a graph that starts empty.

\* The document ids the library is called with.
FgaDocs == {1, 2}

Relations == {"owner", "viewer"}

\* revokeDocumentAccess that deletes every tuple of the user on the document.
revokeDocumentAccess_AllRelations(u, d, rel, ok) ==
    IF ok THEN {t \in tuples : ~ (t.user = u /\ t.object = d)} ELSE tuples

\* revokeDocumentAccess: fgaClient.write({deletes: [tuple]}); ok: the call
\* goes through (otherwise it throws and nothing is deleted).
revokeDocumentAccess(u, d, rel, ok) ==
    IF ok THEN tuples \ {Tuple(u, rel, d)} ELSE tuples

\* canUserViewDocument whose catch returns true.
canUserViewDocument_FailOpen(u, d, failed) ==
    IF failed THEN TRUE ELSE FgaCheck(u, "viewer", d)

\* canUserViewDocument: fgaClient.check on relation viewer; the catch logs
\* and returns false.
canUserViewDocument(u, d, failed) ==
    IF failed THEN FALSE ELSE FgaCheck(u, "viewer", d)

\* What a library call leaves in `last`: status 200 when it returned, 500
\* when it threw; body: <<d>> when it returned true.
LibResult(op, u, d, returned, result, c) ==
    Sent(op, u, 0, d, IF returned THEN 200 ELSE 500,
         IF result THEN <<d>> ELSE <<>>, -1, <<>>, <<c>>)

LibGrant(u, d, rel) ==
    /\ \E ok \in BOOLEAN :
         /\ tuples' = grantDocumentAccess(u, d, rel, ok)
         /\ last' = LibResult("grant", u, d, ok, FALSE, WriteCall(rel, d, ok))
    /\ UNCHANGED <<fgaStoreId, db, vectorStores, req, started, budget, disk>>

LibRevoke(u, d, rel) ==
    /\ \E ok \in BOOLEAN :
         /\ tuples' = revokeDocumentAccess(u, d, rel, ok)
         /\ last' = LibResult("revoke", u, d, ok, FALSE,
                              Call("delete", rel, d, IF ok THEN "ok" ELSE "error"))
    /\ UNCHANGED <<fgaStoreId, db, vectorStores, req, started, budget, disk>>

LibCanView(u, d) ==
    /\ \E failed \in BOOLEAN :
         last' = LibResult("can_view", u, d, TRUE, canUserViewDocument(u, d, failed),
                     Call("check", "viewer", d,
                          IF failed THEN "error"
                          ELSE IF FgaCheck(u, "viewer", d) THEN "allowed"
                          ELSE "denied"))
    /\ UNCHANGED <<fgaStoreId, db, tuples, vectorStores, req, started, budget, disk>>

InitFga ==
    /\ fgaStoreId = TRUE
    /\ uploadedPdfs = {}
    /\ pdfShareRequests = {}
    /\ pdfAccess = {}
    /\ tuples = {}
    /\ vectorStores = {}
    /\ nextPdfId = 1
    /\ nextReqId = 1
    /\ nextAccessId = 1
    /\ files = {}
    /\ nextFileId = 1
    /\ req = [p \in Procs |-> Idle]
    /\ last = NoReply
    /\ started = 0
    /\ budget = 0

NextFga ==
    \/ \E u \in Users, d \in FgaDocs, rel \in Relations : LibGrant(u, d, rel)
    \/ \E u \in Users, d \in FgaDocs, rel \in Relations : LibRevoke(u, d, rel)
    \/ \E u \in Users, d \in FgaDocs : LibCanView(u, d)

SpecFga == InitFga /\ [][NextFga]_vars

\* ================================================================ claims

\* A graph call of the log ended in an error.
HasError(log) == \E i \in DOMAIN log : log[i].outcome = "error"

\* The reply r is the success reply of an upload that created its document
\* (no row existed for (owner, work) when the handler looked).
UploadCreated(r) == r.op = "upload" /\ r.status = 200 /\ r.id = 0

AcceptSucceeded(r) == r.op = "accept" /\ r.status = 200

ShareRequestIds == {s.id : s \in pdfShareRequests}

\* ---------------------------------------------------------------- C1

\* C1: in non-degraded mode, once an upload that creates document D for
\* owner U has replied success, the graph holds (U, owner, D) and
\* (U, viewer, D): check(U, owner, D) and check(U, viewer, D) are true.
C1_DualTupleAfterUpload ==
    (fgaStoreId /\ UploadCreated(last)) =>
        /\ FgaCheck(last.user, "owner", last.doc)
        /\ FgaCheck(last.user, "viewer", last.doc)

\* ---------------------------------------------------------------- C2

\* C2: in non-degraded mode, after recipient B's accept of a share request
\* on document D has replied success, the access row (D, B) exists, the
\* graph holds (B, viewer, D) and the share request row is gone.
C2_ShareThenAccept ==
    (fgaStoreId /\ AcceptSucceeded(last)) =>
        /\ HasAccessRow(last.doc, last.user)
        /\ FgaCheck(last.user, "viewer", last.doc)
        /\ last.id \notin ShareRequestIds

\* ---------------------------------------------------------------- C3

\* The step of slot p is a graph write of route op that raised an error.
GrantFailed(p, op) ==
    /\ req[p].op = op
    /\ req[p].pc \in {"upload_grant_owner", "upload_grant_viewer", "accept_grant"}
    /\ req'[p] # req[p]
    /\ LET log == IF req'[p].pc = "idle" THEN last'.fga ELSE req'[p].fga
       IN log[Len(log)].outcome = "error"

\* C3: when the tuple write throws during an upload, the step leaves the
\* relational tables as they are (the inserted document row is not rolled
\* back) and the handler replies success; when it throws during an accept,
\* the step leaves the tables as they are (the access row is not rolled
\* back), the handler goes on to delete the share request, and the accept
\* whose write threw ends with a success reply and the request deleted.
C3_GraphFailureDoesNotBlock ==
    [][\A p \in Procs :
        /\ GrantFailed(p, "upload") =>
              /\ UNCHANGED db
              /\ req'[p] = Idle
              /\ last'.op = "upload" /\ last'.status = 200
              /\ last'.doc = req[p].doc
        /\ GrantFailed(p, "accept") =>
              /\ UNCHANGED db
              /\ req'[p].pc = "accept_delete"
        /\ (req[p].pc = "accept_delete" /\ req'[p] # req[p]) =>
              /\ last'.op = "accept" /\ last'.status = 200
              /\ req[p].id \notin {s.id : s \in pdfShareRequests'}
              /\ UNCHANGED <<uploadedPdfs, pdfAccess>>
      ]_vars

\* An accept whose tuple write raised an error has replied success: the
\* access row is there, the tuple is not, the share request is gone.
C3_Witness ==
    /\ AcceptSucceeded(last)
    /\ HasError(last.fga)
    /\ HasAccessRow(last.doc, last.user)
    /\ ~ FgaCheck(last.user, "viewer", last.doc)
    /\ last.id \notin ShareRequestIds

\* ---------------------------------------------------------------- C4

\* The reply r is that of a suggestion request whose batch check ran.
SuggestChecked(r) ==
    r.op = "suggest" /\ r.status = 200 /\ Len(r.fga) = Len(r.cands) /\ r.fga # <<>>

ErrorPositions(log) == {i \in DOMAIN log : log[i].outcome = "error"}

AllowedSubsequence(cands, log) ==
    LET F[i \in 0..Len(cands)] ==
            IF i = 0 THEN <<>>
            ELSE IF log[i].outcome = "allowed" THEN Append(F[i - 1], cands[i])
            ELSE F[i - 1]
    IN F[Len(cands)]

\* C5: in non-degraded mode with no check error, the authorized list of a
\* suggestion request is exactly the subsequence of its candidates whose
\* (user, viewer, doc) check was allowed, in the candidates' order; the
\* checks are one per candidate, on relation viewer, and one that was allowed
\* is for a tuple the graph holds.
C5_FilterIsAllowedSubsequence ==
    (fgaStoreId /\ SuggestChecked(last) /\ ~ HasError(last.fga)) =>
        /\ last.authorized = AllowedSubsequence(last.cands, last.fga)
        /\ \A i \in DOMAIN last.fga :
              /\ last.fga[i].kind = "check"
              /\ last.fga[i].relation = "viewer"
              /\ last.fga[i].object = last.cands[i]
              /\ last.fga[i].outcome = "allowed" =>
                    FgaCheck(last.user, "viewer", last.cands[i])

\* Two candidates, one allowed and one denied: the list keeps one of them.
C5_Witness ==
    /\ fgaStoreId
    /\ SuggestChecked(last)
    /\ ~ HasError(last.fga)
    /\ Len(last.cands) = 2
    /\ Len(last.authorized) = 1
    /\ \E i \in DOMAIN last.fga : last.fga[i].outcome = "denied"

\* ---------------------------------------------------------------- C6

\* C6: in non-degraded mode no read flow (suggestion listing, file download,
\* RAG load) delivers document D to user U while check(U, viewer, D) is
\* false.  (Tuples are never deleted here, so a check that is true in this
\* state may have been false at the reply, but one that is false now was
\* false then.)
C6_NoDeliveryAgainstGraph ==
    (fgaStoreId /\ last.status = 200) =>
        /\ last.op \in {"download", "rag_load"} =>
              FgaCheck(last.user, "viewer", last.doc)
        /\ last.op = "suggest" =>
              \A i \in DOMAIN last.body : FgaCheck(last.user, "viewer", last.body[i])

\* ---------------------------------------------------------------- C7

\* C7: the content of a PDF's vector store is returned to a user, by the
\* reply of a RAG query or by a token event of a chat stream, only if the
\* user owns the PDF or holds an access row for it at that moment.
C7_StoreContentOnlyWithAccess ==
    [][\A p \in Procs :
          (\/ /\ req[p].pc = "rag_search"
              /\ req'[p] = Idle
              /\ last'.status = 200
           \/ /\ req[p].pc = "chat_tokens"
              /\ req'[p].tokens > req[p].tokens) =>
              \/ IsOwner(req[p].doc, req[p].user)
              \/ HasAccessRow(req[p].doc, req[p].user)
      ]_vars

\* ---------------------------------------------------------------- C8

\* C8: with FGA_STORE_ID absent, the authorized list of a suggestion request
\* equals its relational candidate list: the same documents in the same
\* order, none removed.
C8_DegradedPassThrough ==
    /\ (~ fgaStoreId /\ last.op = "suggest") => last.authorized = last.cands
    /\ \A p \in Procs :
          (~ fgaStoreId /\ req[p].op = "suggest") =>
              req[p].authorized = req[p].cands

\* A degraded suggestion request with two candidates, both returned.
C8_Witness ==
    /\ ~ fgaStoreId
    /\ last.op = "suggest" /\ last.status = 200
    /\ Len(last.cands) = 2
    /\ last.authorized = last.cands
    /\ last.total = 2

\* ---------------------------------------------------------------- C9

GraphPcs == {"upload_grant_owner", "upload_grant_viewer", "accept_grant",
             "suggest_check", "batch_await"}

\* C9: with FGA_STORE_ID absent, no upload, accept or suggestion request
\* issues a graph call: no request is at, or has gone through, a graph write
\* or check, and the graph stays empty.
C9_NoGraphCallWhenDegraded ==
    ~ fgaStoreId =>
        /\ tuples = {}
        /\ last.fga = <<>>
        /\ \A p \in Procs : req[p].fga = <<>> /\ req[p].pc \notin GraphPcs

\* A degraded accept has replied success and the access row is there.
C9_Witness ==
    /\ ~ fgaStoreId
    /\ AcceptSucceeded(last)
    /\ HasAccessRow(last.doc, last.user)
    /\ tuples = {}

\* ---------------------------------------------------------------- C10

\* C10: every step of a reject request leaves the documents, the access
\* rows, the graph and the vector stores as they are; its first step changes
\* no table, its second removes the share request with the request's id and
\* no other, makes no graph call and replies.
C10_RejectLeavesNoTrace ==
    [][\A p \in Procs :
        ((req[p].op = "reject" \/ req'[p].op = "reject") /\ req'[p] # req[p]) =>
            /\ UNCHANGED <<uploadedPdfs, pdfAccess, tuples, vectorStores,
                           nextPdfId, nextReqId, nextAccessId>>
            /\ req[p].pc = "idle" => UNCHANGED pdfShareRequests
            /\ req[p].pc = "reject_delete" =>
                  /\ pdfShareRequests' =
                        {s \in pdfShareRequests : s.id # req[p].id}
                  /\ last'.op = "reject" /\ last'.fga = <<>>
      ]_vars

\* A reject has replied: the request is gone and the recipient has neither
\* an access row nor a tuple for the document, which is still there.
C10_Witness ==
    /\ last.op = "reject" /\ last.status = 200
    /\ last.id \notin ShareRequestIds
    /\ HasPdf(last.doc)
    /\ ~ HasAccessRow(last.doc, last.user)
    /\ ~ FgaCheck(last.user, "viewer", last.doc)

\* ---------------------------------------------------------------- C11

\* A share request for (d, t) is pending.
Pending(d, t) == \E s \in pdfShareRequests : s.pdfId = d /\ s.toUserId = t

\* C11: in every reachable state at most one share request row exists per
\* (document, recipient), also when two share calls for the same pair
\* interleave; a share call that finds one pending when it looks for it is
\* turned away (409), one that reaches its insert while one is pending is
\* refused (the reply is not a success), and neither creates a row; no share
\* call makes a graph call.
C11_OneShareRequestPerPair ==
    /\ [](/\ \A s1, s2 \in pdfShareRequests :
                (s1.pdfId = s2.pdfId /\ s1.toUserId = s2.toUserId) => s1 = s2
          /\ \A p \in Procs : req[p].op = "share" => req[p].fga = <<>>
          /\ last.op = "share" => last.fga = <<>>)
    /\ [][\A p \in Procs :
            /\ (req[p].op = "share" /\ req'[p] # req[p]) => UNCHANGED tuples
            /\ (req[p].pc = "share_lookup" /\ req'[p] # req[p]) =>
                  /\ UNCHANGED db
                  /\ Pending(req[p].doc, req[p].target) =>
                        /\ req'[p] = Idle
                        /\ last'.op = "share" /\ last'.status = 409
            /\ (/\ req[p].pc = "share_insert"
                /\ req'[p] # req[p]
                /\ Pending(req[p].doc, req[p].target)) =>
                        /\ UNCHANGED db
                        /\ req'[p] = Idle
                        /\ last'.op = "share" /\ last'.status # 200
         ]_vars

\* Two share calls for the same pair interleaved, both past their lookup
\* before either inserted: one row is there and the other call was refused
\* at its insert.
C11_Witness ==
    /\ last.op = "share" /\ last.status = 500
    /\ HasPdf(last.id)
    /\ \E t \in Users : t # last.user /\ Pending(last.id, t)
    /\ Cardinality(pdfShareRequests) = 1

\* ---------------------------------------------------------------- C12

WritePcs == {"upload_grant_owner", "upload_grant_viewer", "accept_grant"}

\* C12: in upload and in accept, a tuple write is attempted only after the
\* relational write has completed successfully: a request comes to its first
\* tuple write by the very step that inserted its document row (upload) or
\* its access row (accept), the viewer write of an upload follows its owner
\* write, only a request at a tuple write changes the graph, and a request
\* whose relational write fails replies without having called the graph.
C12_RelationalWriteBeforeTupleWrite ==
    [][/\ \A p \in Procs :
            /\ (req'[p].pc = "upload_grant_owner" /\ req[p].pc # "upload_grant_owner") =>
                  /\ req[p].pc = "upload_write"
                  /\ \E r \in uploadedPdfs' \ uploadedPdfs :
                        /\ r.id = req'[p].doc
                        /\ r.ownerId = req[p].user
                        /\ r.workId = req[p].work
                  /\ UNCHANGED tuples
            /\ (req'[p].pc = "upload_grant_viewer" /\ req[p].pc # "upload_grant_viewer") =>
                  req[p].pc = "upload_grant_owner"
            /\ (req'[p].pc = "accept_grant" /\ req[p].pc # "accept_grant") =>
                  /\ req[p].pc = "accept_insert"
                  /\ HasPdf(req[p].doc)
                  /\ \E a \in pdfAccess' :
                        a.pdfId = req[p].doc /\ a.userId = req[p].user
                  /\ UNCHANGED tuples
            /\ (req[p].pc \in {"upload_write", "accept_insert"}
                    /\ req'[p] = Idle /\ last'.status = 500) =>
                  /\ UNCHANGED <<db, tuples>>
                  /\ last'.fga = <<>>
       /\ tuples' # tuples =>
            \E p \in Procs : req[p].pc \in WritePcs /\ req'[p] # req[p]
      ]_vars

\* An upload has inserted its row and written its owner tuple, and is about
\* to write the viewer tuple.
C12_Witness ==
    \E p \in Procs :
        /\ req[p].pc = "upload_grant_viewer"
        /\ IsOwner(req[p].doc, req[p].user)
        /\ FgaCheck(req[p].user, "owner", req[p].doc)
        /\ Len(req[p].fga) = 1

\* ---------------------------------------------------------------- C13

\* The tuple the request in slot p writes at its pc.
WrittenTuple(p) ==
    Tuple(req[p].user,
          IF req[p].pc = "upload_grant_owner" THEN "owner" ELSE "viewer",
          req[p].doc)

\* C13: a tuple write for a tuple the graph already holds, whether the graph
\* takes it as a no-op or rejects it with an error, leaves the set of tuples
\* as it is and does not make the request fail: the accept goes on to delete
\* the share request (and then replies success), the upload replies success.
C13_DuplicateGrantIsHarmless ==
    [][\A p \in Procs :
        (req[p].pc \in WritePcs /\ req'[p] # req[p] /\ WrittenTuple(p) \in tuples) =>
            /\ UNCHANGED tuples
            /\ UNCHANGED db
            /\ req[p].pc = "accept_grant" => req'[p].pc = "accept_delete"
            /\ req[p].pc = "upload_grant_owner" =>
                  \/ req'[p].pc = "upload_grant_viewer"
                  \/ req'[p] = Idle /\ last'.status = 200
            /\ req[p].pc = "upload_grant_viewer" =>
                  req'[p] = Idle /\ last'.status = 200
      ]_vars

\* Two accepts of the same share request ran together and both wrote the
\* viewer tuple without error: the second write was a duplicate.  One has
\* replied success and the other is about to delete the request.
C13_Witness ==
    /\ AcceptSucceeded(last)
    /\ Len(last.fga) = 1 /\ ~ HasError(last.fga)
    /\ \E p \in Procs :
          /\ req[p].pc = "accept_delete"
          /\ req[p].user = last.user /\ req[p].doc = last.doc
          /\ Len(req[p].fga) = 1 /\ ~ HasError(req[p].fga)
    /\ FgaCheck(last.user, "viewer", last.doc)

\* ---------------------------------------------------------------- C14

\* No request is in flight.
Quiescent == \A p \in Procs : req[p] = Idle

\* C14: in non-degraded mode any user who holds an owner tuple on document D
\* also holds a viewer tuple on D, so that check(user, viewer, doc) equals
\* can_view(user, doc) = owner OR viewer.  Stated here for the states with
\* no request in flight only, which leaves out the moment between the two
\* writes of an upload.
C14_OwnerImpliesViewer ==
    (fgaStoreId /\ Quiescent) =>
        \A u \in Users, d \in IssuedPdfIds :
            /\ FgaCheck(u, "owner", d) => FgaCheck(u, "viewer", d)
            /\ FgaCheck(u, "viewer", d) <=>
                  (FgaCheck(u, "owner", d) \/ FgaCheck(u, "viewer", d))

\* ---------------------------------------------------------------- C15

UploadSucceeded(r) == r.op = "upload" /\ r.status = 200

\* C15 as stated: every upload that commits its relational write in
\* non-degraded mode, whether it inserted a new document or updated an
\* existing one, attempts both the owner and the viewer tuple write.
C15_EveryUploadWritesBothTuples ==
    (fgaStoreId /\ UploadSucceeded(last)) =>
        /\ Len(last.fga) = 2
        /\ last.fga[1].kind = "write" /\ last.fga[1].relation = "owner"
        /\ last.fga[2].kind = "write" /\ last.fga[2].relation = "viewer"

\* C15 amended: in non-degraded mode an upload that inserted a new document
\* attempts the owner tuple write, and attempts the viewer tuple write
\* exactly when the owner write did not raise an error; an upload that
\* updated an existing document, or whose relational write failed, attempts
\* no tuple write.
C15_OnlyCreationWritesTuples ==
    (fgaStoreId /\ last.op = "upload") =>
        /\ UploadCreated(last) =>
              /\ Len(last.fga) \in {1, 2}
              /\ last.fga[1] = Call("write", "owner", last.doc, last.fga[1].outcome)
              /\ Len(last.fga) = 2 <=> last.fga[1].outcome = "ok"
              /\ Len(last.fga) = 2 =>
                    last.fga[2] = Call("write", "viewer", last.doc, last.fga[2].outcome)
        /\ ~ UploadCreated(last) => last.fga = <<>>

\* A re-upload has updated a document whose tuples were never written, and
\* has made no graph call: the owner still holds no tuple on it.
C15_Witness ==
    /\ fgaStoreId
    /\ UploadSucceeded(last) /\ last.id # 0
    /\ IsOwner(last.id, last.user)
    /\ last.fga = <<>>
    /\ ~ FgaCheck(last.user, "owner", last.id)
    /\ ~ FgaCheck(last.user, "viewer", last.id)

\* ---------------------------------------------------------------- C16

\* C16: given only that the relational store responds, every started upload
\* and every started accept eventually completes and replies (its slot is
\* freed), whatever the graph does: a graph write that fails or that never
\* returns does not leave the handler without a reply.
C16_UploadAndAcceptComplete ==
    \A p \in Procs :
        (req[p].op \in {"upload", "accept"}) ~> (req[p] = Idle)

\* ---------------------------------------------------------------- C17

\* The tuple the library call recorded in r was about.
CallTuple(r) == Tuple(r.user, r.fga[1].relation, r.doc)

\* C17: a revokeDocumentAccess(user, doc, relation) that returns removes
\* exactly that tuple, so that check(user, relation, doc) is false after it
\* and every other tuple is as before; one that throws removes nothing; and
\* a tuple the graph does not hold comes to be held only by a grant of that
\* very tuple.
C17_RevokeRemovesOnlyItsTuple ==
    [][/\ (last'.op = "revoke" /\ last'.status = 200) =>
            /\ tuples' = tuples \ {CallTuple(last')}
            /\ CallTuple(last') \notin tuples'
       /\ (last'.op = "revoke" /\ last'.status = 500) => UNCHANGED tuples
       /\ \A t \in tuples' \ tuples :
            last'.op = "grant" /\ last'.status = 200 /\ t = CallTuple(last')
      ]_vars

\* A viewer tuple was revoked: the check for it is false, while the user's
\* owner tuple on the document, the user's viewer tuple on the other
\* document and the other user's viewer tuple on the document are all held.
C17_Witness ==
    /\ last.op = "revoke" /\ last.status = 200
    /\ last.fga[1].relation = "viewer"
    /\ ~ FgaCheck(last.user, "viewer", last.doc)
    /\ FgaCheck(last.user, "owner", last.doc)
    /\ \E d \in FgaDocs \ {last.doc} : FgaCheck(last.user, "viewer", d)
    /\ \E u \in Users \ {last.user} : FgaCheck(u, "viewer", last.doc)

\* ---------------------------------------------------------------- C18

\* C18: canUserViewDocument always returns (it never throws); it returns
\* true only when the graph answered allowed, which the graph does only for
\* a viewer tuple it holds, and false when the graph answered not-allowed or
\* the call errored.
C18_SingleCheckFailsClosed ==
    /\ [](last.op = "can_view" =>
            /\ last.status = 200
            /\ last.body \in {<<>>, <<last.doc>>}
            /\ last.body = <<last.doc>> <=> last.fga[1].outcome = "allowed"
            /\ last.fga[1].outcome \in {"denied", "error"} => last.body = <<>>)
    /\ [][(last'.op = "can_view" /\ last'.body # <<>>) =>
              FgaCheck(last'.user, "viewer", last'.doc)]_vars

\* The check errored for a tuple the graph holds: the answer is false.
C18_Witness ==
    /\ last.op = "can_view" /\ last.status = 200
    /\ last.fga[1].outcome = "error"
    /\ last.body = <<>>
    /\ FgaCheck(last.user, "viewer", last.doc)

\* ---------------------------------------------------------------- C19

\* The identifier, owner and work of each row.
KeyColumns(rows) ==
    {[id |-> r.id, ownerId |-> r.ownerId, workId |-> r.workId] : r \in rows}

\* C19: in every reachable state at most one document row exists per
\* (owner, work), also when two uploads for the same pair interleave (the
\* insert that comes second is refused and replies an error); a re-upload
\* leaves every row's identifier and owner, the access rows, the share
\* requests and the graph as they are, and replies with the identifier the
\* document already had.
C19_OneDocumentPerOwnerAndWork ==
    /\ [](\A r1, r2 \in uploadedPdfs :
            (r1.ownerId = r2.ownerId /\ r1.workId = r2.workId) => r1 = r2)
    /\ [][\A p \in Procs :
            (req[p].pc = "upload_write" /\ req'[p] # req[p]) =>
                /\ req[p].id # 0 =>
                      /\ KeyColumns(uploadedPdfs') = KeyColumns(uploadedPdfs)
                      /\ UNCHANGED <<pdfShareRequests, pdfAccess, nextPdfId,
                                     nextReqId, nextAccessId, tuples>>
                      /\ req'[p] = Idle /\ last'.fga = <<>>
                      /\ HasPdf(req[p].id) =>
                            /\ last'.status = 200 /\ last'.doc = req[p].id
                            /\ PdfRow(req[p].id).ownerId = req[p].user
                            /\ PdfRow(req[p].id).workId = req[p].work
                /\ (req[p].id = 0 /\ \E r \in uploadedPdfs :
                        r.ownerId = req[p].user /\ r.workId = req[p].work) =>
                      /\ UNCHANGED <<db, tuples>>
                      /\ req'[p] = Idle /\ last'.status = 500
         ]_vars

\* A document that has a pending share request was uploaded again: the
\* reply carries its identifier and the share request is still there.
C19_Witness ==
    /\ UploadSucceeded(last) /\ last.id # 0
    /\ last.doc = last.id
    /\ IsOwner(last.id, last.user)
    /\ \E s \in pdfShareRequests : s.pdfId = last.id /\ s.fromUserId = last.user
    /\ Cardinality(uploadedPdfs) = 1

\* ---------------------------------------------------------------- C20

SuggestReplied(r) == r.op = "suggest" /\ r.status = 200

C21_ChecksIssuedTogether ==
    /\ [](\A p \in Procs :
            req[p].pc = "batch_await" =>
                /\ Len(req[p].fga) = Len(req[p].cands)
                /\ \A i \in DOMAIN req[p].cands :
                      /\ req[p].fga[i].kind = "check"
                      /\ req[p].fga[i].object = req[p].cands[i])
    /\ [][\A p \in Procs :
            /\ (req[p].pc = "suggest_check" /\ req'[p] # req[p]) =>
                  /\ req'[p].pc = "batch_await"
                  /\ DOMAIN req'[p].fga = DOMAIN req[p].cands
                  /\ \A i \in DOMAIN req'[p].fga : req'[p].fga[i].outcome = "pending"
            /\ (req[p].pc = "batch_await" /\ req'[p].pc = "batch_await"
                    /\ req'[p] # req[p]) =>
                  \E i \in DOMAIN req[p].fga :
                      /\ req[p].fga[i].outcome = "pending"
                      /\ \A j \in DOMAIN req[p].fga \ {i} :
                            req'[p].fga[j] = req[p].fga[j]
         ]_vars

\* A batch of two checks is out: the first has not been answered, the
\* second has.
C21_Witness ==
    \E p \in Procs :
        /\ req[p].pc = "batch_await"
        /\ Len(req[p].cands) = 2
        /\ req[p].fga[1].outcome = "pending"
        /\ req[p].fga[2].outcome = "allowed"

\* ---------------------------------------------------------------- C22

\* The relational record of user u on document d: u owns d or holds an
\* access row on d.
Accessible(d, u) == IsOwner(d, u) \/ HasAccessRow(d, u)

\* C22: every document the suggestion flow embeds or returns is a
\* relational candidate (the candidate query found it owned by or granted to
\* the user when it ran) and, in non-degraded mode, one on which the graph
\* holds the user's viewer tuple: neither layer alone authorizes a document.
C22_BothLayersAgree ==
    /\ [](/\ \A p \in Procs :
               req[p].op = "suggest" =>
                   /\ Range(req[p].authorized) \subseteq Range(req[p].cands)
                   /\ fgaStoreId =>
                         \A d \in Range(req[p].authorized) :
                             FgaCheck(req[p].user, "viewer", d)
          /\ last.op = "suggest" =>
               /\ Range(last.body) \subseteq Range(last.authorized)
               /\ Range(last.authorized) \subseteq Range(last.cands)
               /\ fgaStoreId =>
                     \A d \in Range(last.authorized) :
                         FgaCheck(last.user, "viewer", d))
    /\ [][/\ \A p \in Procs :
                (req[p].pc = "idle" /\ req'[p].op = "suggest") =>
                    \A d \in Range(req'[p].cands) : Accessible(d, req'[p].user)
          /\ (started' # started /\ last' # last /\ last'.op = "suggest") =>
                \A d \in Range(last'.cands) : Accessible(d, last'.user)
         ]_vars

\* A suggestion reply in non-degraded mode that carries one candidate and
\* leaves out another, which the user owns but holds no viewer tuple on.
C22_Witness ==
    /\ fgaStoreId
    /\ SuggestReplied(last)
    /\ last.body # <<>>
    /\ \E d \in Range(last.cands) :
          /\ d \notin Range(last.authorized)
          /\ IsOwner(d, last.user)
          /\ ~ FgaCheck(last.user, "viewer", d)

\* ---------------------------------------------------------------- C23

\* C23: an access row (D, U) is inserted only by an accept of U that found a
\* share request on D addressed to U pending when it looked it up; a share
\* request row on D is inserted only by a share of D's owner, addressed to a
\* user of the users table other than the owner; and an accept or a reject
\* of a request by a user it is not addressed to is turned away before it
\* starts, so that it changes nothing.
C23_GrantOnlyByRecipientAccept ==
    /\ [](\A p \in Procs, u \in Users, i \in IssuedReqIds :
            (~ \E s \in pdfShareRequests : s.id = i /\ s.toUserId = u) =>
                /\ ~ ENABLED AcceptBegin(p, u, i)
                /\ ~ ENABLED RejectBegin(p, u, i))
    /\ [][/\ \A a \in pdfAccess' \ pdfAccess :
                \E p \in Procs :
                    /\ req[p].op = "accept"
                    /\ req[p].pc = "accept_insert"
                    /\ req[p].user = a.userId
                    /\ req[p].doc = a.pdfId
          /\ \A p \in Procs :
                (req[p].pc = "idle" /\ req'[p].op \in {"accept", "reject"}) =>
                    \E s \in pdfShareRequests :
                        /\ s.id = req'[p].id
                        /\ s.toUserId = req'[p].user
                        /\ req'[p].op = "accept" => s.pdfId = req'[p].doc
          /\ \A s \in pdfShareRequests' \ pdfShareRequests :
                /\ IsOwner(s.pdfId, s.fromUserId)
                /\ s.toUserId \in Users
                /\ s.toUserId # s.fromUserId
                /\ \E p \in Procs :
                      /\ req[p].op = "share"
                      /\ req[p].user = s.fromUserId
                      /\ req[p].doc = s.pdfId
         ]_vars

\* An accept has succeeded and its user, who owns no PDF, holds an access
\* row.
C23_Witness ==
    /\ AcceptSucceeded(last)
    /\ \E a \in pdfAccess : a.userId = last.user /\ ~ IsOwner(a.pdfId, last.user)

\* ---------------------------------------------------------------- C24

DeleteSucceeded(r) == r.op = "delete" /\ r.status = 200

\* C24: a delete of a PDF by a user who does not own it is turned away
\* before it starts, so that it changes nothing; a PDF row disappears only by
\* a delete of its owner; and no access row and no share request ever refers
\* to a PDF that is not in the table, in particular after the owner's delete.
C24_OwnerDeleteCascades ==
    /\ [](/\ \A p \in Procs, u \in Users, d \in IssuedPdfIds :
               ~ IsOwner(d, u) => ~ ENABLED DeleteBegin(p, u, d)
          /\ \A a \in pdfAccess : HasPdf(a.pdfId)
          /\ \A s \in pdfShareRequests : HasPdf(s.pdfId))
    /\ [][\A r \in {x \in uploadedPdfs : \A y \in uploadedPdfs' : y.id # x.id} :
            /\ \E p \in Procs :
                  /\ req[p].op = "delete"
                  /\ req[p].user = r.ownerId
                  /\ req[p].id = r.id
            /\ DeleteSucceeded(last') /\ last'.doc = r.id
            /\ \A a \in pdfAccess' : a.pdfId # r.id
            /\ \A s \in pdfShareRequests' : s.pdfId # r.id
         ]_vars

\* The owner's delete has replied.  Document 1 is the only document there
\* ever was, access rows and share requests on it had been inserted, and
\* none is left.
C24_Witness ==
    /\ DeleteSucceeded(last)
    /\ last.doc = 1 /\ nextPdfId = 2
    /\ ~ HasPdf(1)
    /\ nextAccessId > 1 /\ nextReqId > 1
    /\ pdfAccess = {} /\ pdfShareRequests = {}

\* ---------------------------------------------------------------- C25

PastInsert == {"accept_grant", "accept_delete"}

\* C25: in every reachable state at most one access row exists per
\* (document, user), also when two accepts of the same request interleave or
\* when the document was shared again after a first accept; an accept that
\* reaches its insert while the row is already there inserts nothing and
\* goes on, and an accept that is past its insert replies with a success.
C25_OneGrantPerPair ==
    /\ [](\A a, b \in pdfAccess :
            (a.pdfId = b.pdfId /\ a.userId = b.userId) => a = b)
    /\ [][\A p \in Procs :
            /\ (/\ req[p].pc = "accept_insert"
                /\ req'[p] # req[p]
                /\ HasAccessRow(req[p].doc, req[p].user)) =>
                  /\ pdfAccess' = pdfAccess
                  /\ req'[p].pc \in PastInsert
            /\ (req[p].pc \in PastInsert /\ req'[p] = Idle) =>
                  AcceptSucceeded(last')
         ]_vars

\* Two accepts of the same request are both past their insert, and one
\* access row exists for the recipient.
C25_Witness ==
    \E p, q \in Procs :
        /\ p # q
        /\ req[p].op = "accept" /\ req[q].op = "accept"
        /\ req[p].id = req[q].id
        /\ req[p].pc \in PastInsert /\ req[q].pc \in PastInsert
        /\ Cardinality({a \in pdfAccess :
                           a.pdfId = req[p].doc /\ a.userId = req[p].user}) = 1

\* ---------------------------------------------------------------- C26

\* C26: a suggestion request whose candidate list is empty is answered with
\* an empty suggestion list and without any graph check: its reply carries no
\* document, no count and no graph call, it is sent by the step that ran the
\* candidate query, and no request ever waits on a batch check of an empty
\* list.
C26_EmptyCandidatesShortCircuit ==
    /\ [](/\ \A p \in Procs : req[p].pc = "suggest_check" => req[p].cands # <<>>
          /\ (SuggestReplied(last) /\ last.cands = <<>>) =>
                /\ last.body = <<>>
                /\ last.total = -1
                /\ last.fga = <<>>)
    /\ [][(last' # last /\ SuggestReplied(last') /\ last'.cands = <<>>) =>
             /\ req' = req
             /\ started' = started + 1
             /\ tuples' = tuples
         ]_vars

\* In non-degraded mode a user without candidates has been answered while
\* the table holds a PDF.
C26_Witness ==
    /\ fgaStoreId
    /\ SuggestReplied(last)
    /\ last.cands = <<>>
    /\ uploadedPdfs # {}

\* ---------------------------------------------------------------- C27

RejectSucceeded(r) == r.op = "reject" /\ r.status = 200

\* C27: a share request is ended by one of accept and reject only: once a
\* reject of a request has replied with a success, no step of an accept of
\* that same request inserts an access row or writes a tuple.
C27_RejectedRequestGrantsNothing ==
    [][\A p \in Procs :
          (/\ RejectSucceeded(last)
           /\ req[p].op = "accept"
           /\ req[p].id = last.id
           /\ req'[p] # req[p]) =>
              /\ pdfAccess' = pdfAccess
              /\ tuples' = tuples
      ]_vars

\* ---------------------------------------------------------------- C28

\* C28: every tuple (U, owner or viewer, D) the graph holds has its
\* relational counterpart: D is in the table and U owns D or holds an access
\* row on D.  In particular no tuple outlives the deletion of its document,
\* and none is written by an accept that interleaves with the deletion.
\* Stated here for the states with no request in flight only, which leaves
\* out every handler that is between two of its writes.
C28_TuplesHaveRelationalCounterpart ==
    Quiescent =>
        \A t \in tuples :
            /\ HasPdf(t.object)
            /\ IsOwner(t.object, t.user) \/ HasAccessRow(t.object, t.user)

\* ---------------------------------------------------------------- C29

\* C29: the candidate list of a suggestion request holds each document at
\* most once (so exactly once each document the user owns or was granted),
\* whatever the access rows other users hold on the document: both the list
\* a request carries into its batch check and the list a reply was made
\* from.
C29_CandidatesWithoutDuplicates ==
    /\ \A p \in Procs :
          req[p].pc = "suggest_check" =>
              \A d \in Range(req[p].cands) : Occurrences(req[p].cands, d) = 1
    /\ SuggestReplied(last) =>
          \A d \in Range(last.cands) : Occurrences(last.cands, d) = 1

\* ---------------------------------------------------------------- C30

\* C30: an upload writes its owner tuple first and awaits it, and tries the
\* viewer tuple only when the owner write succeeded: an upload that is about
\* to write the viewer tuple has made one graph call, the successful owner
\* write, and the graph holds the owner tuple; the viewer tuple of an upload
\* is added by that step alone; so an owner of a document who holds the
\* viewer tuple on it holds the owner tuple too.
C30_OwnerTupleBeforeViewerTuple ==
    /\ [](/\ \A p \in Procs :
               req[p].pc = "upload_grant_viewer" =>
                   /\ req[p].fga = <<WriteCall("owner", req[p].doc, TRUE)>>
                   /\ FgaCheck(req[p].user, "owner", req[p].doc)
          /\ \A r \in uploadedPdfs :
               FgaCheck(r.ownerId, "viewer", r.id) => FgaCheck(r.ownerId, "owner", r.id))
    /\ [][\A p \in Procs :
            (/\ req[p].op = "upload"
             /\ req'[p] # req[p]
             /\ Tuple(req[p].user, "viewer", req[p].doc) \in tuples' \ tuples) =>
                /\ req[p].pc = "upload_grant_viewer"
                /\ Tuple(req[p].user, "owner", req[p].doc) \in tuples
         ]_vars

\* An upload has created its document and replied after one graph call, the
\* owner write, which failed: no viewer write was tried and the graph holds
\* no tuple on the document.
C30_Witness ==
    /\ UploadCreated(last)
    /\ Len(last.fga) = 1
    /\ last.fga[1] = WriteCall("owner", last.doc, FALSE)
    /\ \A t \in tuples : t.object # last.doc

====
